---- MODULE Spec2Model ----
(***************************************************************************)
(* SlugSyllabus: upload -> extract -> cache -> render pipeline.            *)
(* Model of src/app/main.py and src/app/llm.py.                            *)
(*                                                                         *)
(* Text values (slugs, file names, PDF page texts, cached blobs) are       *)
(* sequences of one-character strings, so that slugify, the cache file     *)
(* name and the glob of cache-clear are computed character by character.   *)
(* The persisted state is the index file, the uploads directory and the    *)
(* cache directory; every request handler is a process with its own local  *)
(* variables, and handlers interleave at their file-system accesses and    *)
(* at the calls to the external model (FastAPI runs "def" handlers and     *)
(* background tasks on a thread pool).  A read or a write of one file is   *)
(* one step: a torn read of index.json is never valid JSON, so it only     *)
(* aborts the reading handler before it changed anything.                  *)
(***************************************************************************)
EXTENDS Integers, Sequences, FiniteSets, TLC

(***************************************************************************)
(* Bounds of the model (workload, not program constants).                  *)
(***************************************************************************)
MaxUploads == 3   \* POST /upload requests, Document Index alone
MaxPrunes == 2    \* _prune_missing_files runs, Document Index alone
MaxDeletes == 1   \* PDFs removed from the uploads folder, Document Index alone
MaxViews == 2     \* GET /insight requests
MaxClears == 1    \* POST /cache/clear requests
PairUploads == 2  \* two uploads with precompute: POST /upload requests
PreUploads == 1   \* precompute and cache specifications: POST /upload requests
SysUploads == 1   \* whole system: POST /upload requests
SysPrunes == 1    \* whole system: _prune_missing_files runs
SysDeletes == 1   \* whole system: PDFs removed
SysViews == 1     \* whole system: GET /insight requests
SysClears == 1    \* whole system: POST /cache/clear requests
ExtraKeys == 1    \* pool specification: catalog entries beyond the four
MaxPages == 3     \* _extract_pdf_text on its own: pages of a PDF
MaxChars == 5     \* _extract_pdf_text on its own: greatest max_chars
RouteUploads == 1 \* routes specification: POST /upload requests
RouteViews == 2   \* routes specification: GET /insight requests
RouteClears == 1  \* routes specification: POST /cache/clear requests
RouteOthers == 1  \* routes specification: page, pdf and compare requests
CompareUploads == 2 \* comparison specification: POST /upload requests
CompareViews == 2 \* comparison specification: GET /insight requests
ReuseUploads == 2 \* slug-reuse specification: POST /upload requests
ReusePrunes == 1  \* slug-reuse specification: prune runs
ReuseDeletes == 1 \* slug-reuse specification: stored PDFs removed
ReuseViews == 2   \* slug-reuse specification: GET /insight requests
MaxReplyLen == 3  \* run_llm on its own: length of the enumerated model replies

(***************************************************************************)
(* Characters and strings.                                                 *)
(***************************************************************************)
LowerLetters ==
  << "a", "b", "c", "d", "e", "f", "g", "h", "i", "j", "k", "l", "m",
     "n", "o", "p", "q", "r", "s", "t", "u", "v", "w", "x", "y", "z" >>
UpperLetters ==
  << "A", "B", "C", "D", "E", "F", "G", "H", "I", "J", "K", "L", "M",
     "N", "O", "P", "Q", "R", "S", "T", "U", "V", "W", "X", "Y", "Z" >>
DigitChars == << "0", "1", "2", "3", "4", "5", "6", "7", "8", "9" >>

Range(f) == { f[i] : i \in DOMAIN f }

\* str.isspace for the ASCII characters of the model
IsSpace(c) == c \in { " ", "\t", "\n", "\r", "\f" }

\* one character of str.lower()
LowerChar(c) ==
  IF \E i \in 1..26 : UpperLetters[i] = c
  THEN LowerLetters[CHOOSE i \in 1..26 : UpperLetters[i] = c]
  ELSE c

\* str.lower()
Lower(s) == [ i \in 1..Len(s) |-> LowerChar(s[i]) ]

\* str.strip(chars): drop the leading and trailing characters that are in cs
RECURSIVE LStripSet(_, _)
LStripSet(s, cs) ==
  IF s # << >> /\ Head(s) \in cs THEN LStripSet(Tail(s), cs) ELSE s
RECURSIVE RStripSet(_, _)
RStripSet(s, cs) ==
  IF s # << >> /\ s[Len(s)] \in cs
  THEN RStripSet(SubSeq(s, 1, Len(s) - 1), cs) ELSE s
StripSet(s, cs) == RStripSet(LStripSet(s, cs), cs)

\* str.strip()
Strip(s) == StripSet(s, { " ", "\t", "\n", "\r", "\f" })

\* str.endswith / str.startswith
EndsWith(s, suf) ==
  /\ Len(suf) <= Len(s)
  /\ SubSeq(s, Len(s) - Len(suf) + 1, Len(s)) = suf
StartsWith(s, p) ==
  /\ Len(p) <= Len(s)
  /\ SubSeq(s, 1, Len(p)) = p

\* str(n) for an int
RECURSIVE NatToStr(_)
NatToStr(n) ==
  IF n < 10 THEN << DigitChars[n + 1] >>
  ELSE NatToStr(n \div 10) \o << DigitChars[(n % 10) + 1] >>
IntToStr(n) == IF n < 0 THEN << "-" >> \o NatToStr(0 - n) ELSE NatToStr(n)

\* re.sub(r"[^a-z0-9]+", "-", s): every maximal run of characters outside
\* a-z0-9 becomes one "-"
IsSlugAlnum(c) == c \in Range(LowerLetters) \cup Range(DigitChars)
RECURSIVE SubNonAlnum(_, _)
SubNonAlnum(s, inRun) ==
  IF s = << >> THEN << >>
  ELSE IF IsSlugAlnum(Head(s)) THEN << Head(s) >> \o SubNonAlnum(Tail(s), FALSE)
  ELSE IF inRun THEN SubNonAlnum(Tail(s), TRUE)
  ELSE << "-" >> \o SubNonAlnum(Tail(s), TRUE)

\* _slugify
slugify(s) == StripSet(SubNonAlnum(Strip(Lower(s)), FALSE), { "-" })

\* _unique_slug: the while loop, slug and i being its variables
RECURSIVE unique_slug_loop(_, _, _, _)
unique_slug_loop(base, existing, slug, i) ==
  IF slug \in existing
  THEN unique_slug_loop(base, existing, base \o << "-" >> \o IntToStr(i), i + 1)
  ELSE slug
\* fault: the suffixes start at 1
SuffixFromOne(base, existing) == unique_slug_loop(base, existing, base, 1)

unique_slug(base, existing) == unique_slug_loop(base, existing, base, 2)

(***************************************************************************)
(* Inputs of POST /upload: the form fields, the uploaded file's name and   *)
(* its content.  A PDF's content is what pypdf sees in it: readable or     *)
(* not, and the text of each page.                                         *)
(***************************************************************************)
DocText == [ readable |-> TRUE, pages |-> << << "h", "i" >> >> ]
DocScan == [ readable |-> TRUE, pages |-> << << >> >> ]
DocBad == [ readable |-> FALSE, pages |-> << >> ]

NamePdf == << "s", ".", "p", "d", "f" >>
NameUpperPdf == << "S", ".", "P", "D", "F" >>
NameTxt == << "n", ".", "t", "x", "t" >>

\* "A", "", "", 0 -> base slug a-0
FormA0 ==
  [ course_code |-> << "A" >>, title |-> << >>, instructor |-> << >>,
    quarter |-> << >>, year |-> 0 ]
\* "a", "0", "", 2 -> base slug a-0-2
FormA02 ==
  [ course_code |-> << "a" >>, title |-> << >>, instructor |-> << "0" >>,
    quarter |-> << >>, year |-> 2 ]

UploadInputs ==
  { [ form |-> FormA0, name |-> NamePdf, doc |-> DocText ],
    [ form |-> FormA0, name |-> NameUpperPdf, doc |-> DocScan ],
    [ form |-> FormA02, name |-> NamePdf, doc |-> DocText ],
    [ form |-> FormA0, name |-> NameTxt, doc |-> DocText ] }

\* fault: the check of the file name is left out
AnyFileName(name) == TRUE

\* upload_syllabus: pdf.filename.lower().endswith(".pdf")
IsPdfName(name) == EndsWith(Lower(name), << ".", "p", "d", "f" >>)

\* upload_syllabus: _slugify(f"{course_code}-{instructor}-{quarter}-{year}")
base_slug(form) ==
  slugify(form.course_code \o << "-" >> \o form.instructor \o << "-" >>
          \o form.quarter \o << "-" >> \o IntToStr(form.year))

\* upload_syllabus: filename = f"{slug}.pdf"
PdfFilename(slug) == slug \o << ".", "p", "d", "f" >>

\* fault: the slugs of the index are not collected
NoSlugs(idx) == { }

\* upload_syllabus: existing = {s["slug"] for s in idx["syllabi"]}
SlugsOf(idx) == { idx[i].slug : i \in DOMAIN idx }

\* upload_syllabus: the record appended to the index; uploaded_at is the
\* time of the request, which the model takes to be the request's number
NewRecord(form, slug, at) ==
  [ slug |-> slug, course_code |-> form.course_code, title |-> form.title,
    instructor |-> form.instructor, quarter |-> form.quarter,
    year |-> form.year, filename |-> PdfFilename(slug), uploaded_at |-> at ]

(***************************************************************************)
(* llm.py: the prompt catalog and run_llm.                                 *)
(***************************************************************************)
KeyTldr == << "t", "l", "d", "r" >>
KeyWorkload == << "w", "o", "r", "k", "l", "o", "a", "d" >>
KeyGrading == << "g", "r", "a", "d", "i", "n", "g" >>
KeyPrereqs == << "p", "r", "e", "r", "e", "q", "s" >>

\* PROMPT_SPECS: key -> mode (the prompt and schema texts only reach the model)
PROMPT_SPECS ==
  ( KeyTldr :> "text" ) @@ ( KeyWorkload :> "json" ) @@
  ( KeyGrading :> "json" ) @@ ( KeyPrereqs :> "json" )

\* list(PROMPT_SPECS.keys()): insertion order
prompt_keys == << KeyTldr, KeyWorkload, KeyGrading, KeyPrereqs >>

\* the catalog with n more entries k1, k2, ... appended to PROMPT_SPECS (the
\* program has n = 0; _precompute_insights is written for any catalog)
Catalog(n) == prompt_keys \o [ i \in 1..n |-> << "k" >> \o IntToStr(i) ]
ModeOf(key) == IF key \in DOMAIN PROMPT_SPECS THEN PROMPT_SPECS[key] ELSE "json"

\* run_llm, llm.py:58
MsgNoTextLlm ==
  << "N", "o", " ", "t", "e", "x", "t", " ", "c", "o", "u", "l", "d", " ", "b", "e", " ",
     "e", "x", "t", "r", "a", "c", "t", "e", "d", " ", "f", "r", "o", "m", " ", "t", "h",
     "i", "s", " ", "P", "D", "F", " ", "(", "o", "r", " ", "i", "t", "RSQUO", "s", " ",
     "s", "c", "a", "n", "n", "e", "d", ")", "." >>
\* _precompute_insights, main.py:132
MsgNoTextPre ==
  << "N", "o", " ", "t", "e", "x", "t", " ", "c", "o", "u", "l", "d", " ", "b", "e", " ",
     "e", "x", "t", "r", "a", "c", "t", "e", "d", " ", "f", "r", "o", "m", " ", "t", "h",
     "i", "s", " ", "P", "D", "F", " ", "(", "s", "c", "a", "n", "n", "e", "d", " ", "i",
     "m", "a", "g", "e", "?", ")", "." >>

\* what the external model may answer (resp.text); a call may also raise
ReplyOk == << " ", "o", "k", "\n" >>
ReplyNo == << "n", "o" >>
ModelReplies == { ReplyOk, ReplyNo }

\* fault: "if not syllabus_text", the strip left out
IsEmptyText(text) == text = << >>

\* run_llm: "if not syllabus_text.strip()": no model call, the fixed message
IsBlank(text) == Strip(text) = << >>

\* str.find / str.rfind of one character: 0-based index, -1 when absent
Find(s, c) ==
  IF \E i \in 1..Len(s) : s[i] = c
  THEN (CHOOSE i \in 1..Len(s) : s[i] = c /\ \A j \in 1..(i - 1) : s[j] # c) - 1
  ELSE -1
\* fault: find where rfind is meant
FindFirst(s, c) == Find(s, c)

RFind(s, c) ==
  IF \E i \in 1..Len(s) : s[i] = c
  THEN (CHOOSE i \in 1..Len(s) : s[i] = c /\ \A j \in (i + 1)..Len(s) : s[j] # c) - 1
  ELSE -1

(***************************************************************************)
(* JSON, as json.loads and json.dumps(indent=2, ensure_ascii=False) treat  *)
(* the documents made of objects, arrays, integers, null, true, false and  *)
(* strings without escapes, over the characters of the model (no ".", no   *)
(* exponent, no backslash).  A parsed value is a record tagged by t.       *)
(***************************************************************************)
JsonWs == { " ", "\t", "\n", "\r" }
SkipWs(s) == LStripSet(s, JsonWs)
JFail == [ ok |-> FALSE, val |-> [ t |-> "null" ], rest |-> << >> ]
JOk(v, rest) == [ ok |-> TRUE, val |-> v, rest |-> rest ]
IsDigit(c) == c \in Range(DigitChars)
DigitVal(c) == (CHOOSE i \in 1..10 : DigitChars[i] = c) - 1

\* the digits of an integer literal: value so far, rest
RECURSIVE ParseDigits(_, _)
ParseDigits(s, acc) ==
  IF s # << >> /\ IsDigit(Head(s))
  THEN ParseDigits(Tail(s), 10 * acc + DigitVal(Head(s)))
  ELSE [ n |-> acc, rest |-> s ]

\* -?(0|[1-9][0-9]*)
ParseInt(s) ==
  LET neg == s # << >> /\ Head(s) = "-"
      body == IF neg THEN Tail(s) ELSE s
  IN  IF body = << >> \/ ~ IsDigit(Head(body)) THEN JFail
      ELSE IF Head(body) = "0" THEN JOk([ t |-> "int", n |-> 0 ], Tail(body))
      ELSE LET d == ParseDigits(body, 0)
           IN  JOk([ t |-> "int", n |-> IF neg THEN 0 - d.n ELSE d.n ], d.rest)

\* a string literal, s starting after the opening quote
RECURSIVE ParseStringBody(_, _)
ParseStringBody(s, acc) ==
  IF s = << >> THEN JFail
  ELSE IF Head(s) = "\"" THEN JOk([ t |-> "str", s |-> acc ], Tail(s))
  ELSE IF Head(s) \in { "\\", "\t", "\n", "\r", "\f" } THEN JFail
  ELSE ParseStringBody(Tail(s), Append(acc, Head(s)))

\* dict[key] = value: a repeated key keeps its place and takes the new value
ObjPut(o, k, v) ==
  IF \E i \in 1..Len(o.keys) : o.keys[i] = k
  THEN [ o EXCEPT !.vals[CHOOSE i \in 1..Len(o.keys) : o.keys[i] = k] = v ]
  ELSE [ o EXCEPT !.keys = Append(@, k), !.vals = Append(@, v) ]

RECURSIVE ParseValue(_)
RECURSIVE ParseMembers(_, _)
RECURSIVE ParseItems(_, _)

\* one JSON value at the head of s (leading whitespace already skipped)
ParseValue(s) ==
  IF s = << >> THEN JFail
  ELSE IF Head(s) = "{" THEN
    LET r == SkipWs(Tail(s))
        empty == [ t |-> "obj", keys |-> << >>, vals |-> << >> ]
    IN  IF r # << >> /\ Head(r) = "}" THEN JOk(empty, Tail(r))
        ELSE ParseMembers(r, empty)
  ELSE IF Head(s) = "[" THEN
    LET r == SkipWs(Tail(s))
    IN  IF r # << >> /\ Head(r) = "]"
        THEN JOk([ t |-> "arr", items |-> << >> ], Tail(r))
        ELSE ParseItems(r, << >>)
  ELSE IF Head(s) = "\"" THEN ParseStringBody(Tail(s), << >>)
  ELSE IF StartsWith(s, << "n", "u", "l", "l" >>)
    THEN JOk([ t |-> "null" ], SubSeq(s, 5, Len(s)))
  ELSE IF StartsWith(s, << "t", "r", "u", "e" >>)
    THEN JOk([ t |-> "bool", b |-> TRUE ], SubSeq(s, 5, Len(s)))
  ELSE IF StartsWith(s, << "f", "a", "l", "s", "e" >>)
    THEN JOk([ t |-> "bool", b |-> FALSE ], SubSeq(s, 6, Len(s)))
  ELSE ParseInt(s)

\* the members of an object: s is at a key
ParseMembers(s, o) ==
  IF s = << >> \/ Head(s) # "\"" THEN JFail
  ELSE LET k == ParseStringBody(Tail(s), << >>)
       IN  IF ~ k.ok THEN JFail
           ELSE LET r1 == SkipWs(k.rest)
                IN  IF r1 = << >> \/ Head(r1) # ":" THEN JFail
                    ELSE LET v == ParseValue(SkipWs(Tail(r1)))
                         IN  IF ~ v.ok THEN JFail
                             ELSE LET o2 == ObjPut(o, k.val.s, v.val)
                                      r2 == SkipWs(v.rest)
                                  IN  IF r2 = << >> THEN JFail
                                      ELSE IF Head(r2) = "}" THEN JOk(o2, Tail(r2))
                                      ELSE IF Head(r2) = ","
                                        THEN ParseMembers(SkipWs(Tail(r2)), o2)
                                      ELSE JFail

\* the items of an array: s is at a value
ParseItems(s, items) ==
  LET v == ParseValue(s)
  IN  IF ~ v.ok THEN JFail
      ELSE LET r == SkipWs(v.rest)
               items2 == Append(items, v.val)
           IN  IF r = << >> THEN JFail
               ELSE IF Head(r) = "]" THEN JOk([ t |-> "arr", items |-> items2 ], Tail(r))
               ELSE IF Head(r) = "," THEN ParseItems(SkipWs(Tail(r)), items2)
               ELSE JFail

\* json.loads(s): one value, whitespace around it, nothing else
json_loads(s) ==
  LET v == ParseValue(SkipWs(s))
  IN  IF v.ok /\ SkipWs(v.rest) = << >> THEN v ELSE JFail

Spaces(n) == [ i \in 1..n |-> " " ]

\* json.dumps(v, indent=2, ensure_ascii=False), v nested at depth d
RECURSIVE JsonDump(_, _)
RECURSIVE DumpJoin(_, _, _, _)
JsonDump(v, d) ==
  IF v.t = "null" THEN << "n", "u", "l", "l" >>
  ELSE IF v.t = "bool"
    THEN (IF v.b THEN << "t", "r", "u", "e" >> ELSE << "f", "a", "l", "s", "e" >>)
  ELSE IF v.t = "int" THEN IntToStr(v.n)
  ELSE IF v.t = "str" THEN << "\"" >> \o v.s \o << "\"" >>
  ELSE IF v.t = "arr" THEN
    IF v.items = << >> THEN << "[", "]" >>
    ELSE << "[", "\n" >> \o DumpJoin(<< >>, v.items, 1, d + 1)
         \o << "\n" >> \o Spaces(2 * d) \o << "]" >>
  ELSE
    IF v.keys = << >> THEN << "{", "}" >>
    ELSE << "{", "\n" >> \o DumpJoin(v.keys, v.vals, 1, d + 1)
         \o << "\n" >> \o Spaces(2 * d) \o << "}" >>

\* the items (keys empty) or members from position i on, one per line
DumpJoin(keys, vals, i, d) ==
  LET item == Spaces(2 * d)
              \o (IF keys = << >> THEN << >>
                  ELSE << "\"" >> \o keys[i] \o << "\"", ":", " " >>)
              \o JsonDump(vals[i], d)
  IN  IF i = Len(vals) THEN item
      ELSE item \o << ",", "\n" >> \o DumpJoin(keys, vals, i + 1, d)

json_dumps(v) == JsonDump(v, 0)

\* the code fence of markdown, three backticks; "BQ" stands for the one
\* character U+0060 and "RSQUO" for U+2019, which a string cannot hold
Fence == << "BQ", "BQ", "BQ" >>

\* s.find(Fence) from 1-based position i on: the 1-based position, or 0
RECURSIVE FindFence(_, _)
FindFence(s, i) ==
  IF i + 2 > Len(s) THEN 0
  ELSE IF SubSeq(s, i, i + 2) = Fence THEN i
  ELSE FindFence(s, i + 1)

\* _extract_json up to the region s2[start:end+1]: the text that is parsed,
\* found being false where _extract_json returns None before parsing
json_region(s) ==
  LET s1 == Strip(s)
      close == IF StartsWith(s1, Fence) THEN FindFence(s1, 4) ELSE 0
      s2 == IF close > 0 THEN Strip(SubSeq(s1, 4, close - 1)) ELSE s1
      start == Find(s2, "{")
      end == RFind(s2, "}")
  IN  IF start = -1 \/ end = -1 \/ end <= start
      THEN [ found |-> FALSE, text |-> << >> ]
      ELSE [ found |-> TRUE, text |-> SubSeq(s2, start + 1, end + 1) ]

\* _extract_json: [ok, val], ok false for None
extract_json(s) ==
  LET r == json_region(s)
  IN  IF r.found THEN json_loads(r.text) ELSE JFail

\* run_llm on text that is not blank, the model having answered reply
run_llm_result(prompt_key, reply) ==
  LET out == Strip(reply)
  IN  IF ModeOf(prompt_key) = "text" THEN out
      ELSE LET parsed == extract_json(out)
           IN  IF parsed.ok THEN json_dumps(parsed.val) ELSE out

(***************************************************************************)
(* main.py: PDF text, cache files.                                         *)
(***************************************************************************)
DEFAULT_MAX_CHARS == 45000

\* "\n\n".join(parts)
RECURSIVE JoinParts(_)
JoinParts(parts) ==
  IF parts = << >> THEN << >>
  ELSE IF Len(parts) = 1 THEN parts[1]
  ELSE parts[1] \o << "\n", "\n" >> \o JoinParts(Tail(parts))

\* fault: "if t" left out, empty page texts are appended too
RECURSIVE ExtractLoopAll(_, _, _, _)
ExtractLoopAll(pages, parts, total, max_chars) ==
  IF pages = << >> THEN parts
  ELSE LET parts2 == Append(parts, Head(pages))
           total2 == total + Len(Head(pages))
       IN  IF total2 >= max_chars THEN parts2
           ELSE ExtractLoopAll(Tail(pages), parts2, total2, max_chars)

\* the page loop of _extract_pdf_text: parts after reading pages[i..]
RECURSIVE ExtractLoop(_, _, _, _)
ExtractLoop(pages, parts, total, max_chars) ==
  IF pages = << >> THEN parts
  ELSE LET t == Head(pages)
           parts2 == IF t # << >> THEN Append(parts, t) ELSE parts
           total2 == IF t # << >> THEN total + Len(t) ELSE total
       IN  IF total2 >= max_chars THEN parts2
           ELSE ExtractLoop(Tail(pages), parts2, total2, max_chars)

\* s[:n] for n >= 0
Prefix(s, n) == SubSeq(s, 1, IF n < Len(s) THEN n ELSE Len(s))

\* _extract_pdf_text on the file pdf_path of the uploads directory
extract_pdf_text(dir, name, max_chars) ==
  IF ~ (name \in DOMAIN dir) THEN << >>
  ELSE IF ~ dir[name].readable THEN << >>
  ELSE Prefix(JoinParts(ExtractLoop(dir[name].pages, << >>, 0, max_chars)), max_chars)

\* re.sub(r"[^a-zA-Z0-9_-]+", "_", prompt_key)
IsSafeChar(c) ==
  c \in Range(LowerLetters) \cup Range(UpperLetters) \cup Range(DigitChars) \cup { "_", "-" }
RECURSIVE SubUnsafe(_, _)
SubUnsafe(s, inRun) ==
  IF s = << >> THEN << >>
  ELSE IF IsSafeChar(Head(s)) THEN << Head(s) >> \o SubUnsafe(Tail(s), FALSE)
  ELSE IF inRun THEN SubUnsafe(Tail(s), TRUE)
  ELSE << "_" >> \o SubUnsafe(Tail(s), TRUE)

\* _cache_file: the file's name in CACHE_DIR
cache_file(slug, prompt_key) ==
  slug \o << "_", "_" >> \o SubUnsafe(prompt_key, FALSE) \o << ".", "t", "x", "t" >>

\* fnmatch of one path component, for patterns made of literal characters,
\* "*" and "?" (case-sensitive, as on POSIX)
RECURSIVE FnMatch(_, _)
FnMatch(pat, name) ==
  IF pat = << >> THEN name = << >>
  ELSE IF Head(pat) = "*"
       THEN \/ FnMatch(Tail(pat), name)
            \/ name # << >> /\ FnMatch(pat, Tail(name))
  ELSE IF name = << >> THEN FALSE
  ELSE /\ Head(pat) = "?" \/ Head(pat) = Head(name)
       /\ FnMatch(Tail(pat), Tail(name))

\* Path.glob of a one-component pattern raises ValueError when the
\* component holds "**" and is not "**" itself (pathlib of Python 3.11)
GlobRaises(pat) ==
  /\ pat # << "*", "*" >>
  /\ \E i \in 1..(Len(pat) - 1) : pat[i] = "*" /\ pat[i + 1] = "*"

\* the name is one that Path.glob(pat) yields
GlobMatch(pat, name) == ~ GlobRaises(pat) /\ FnMatch(pat, name)

\* clear_cache: CACHE_DIR.glob(f"{slug}__*.txt"); the files it goes on to
\* unlink (none when the glob raises)
ClearPattern(slug) == slug \o << "_", "_", "*", ".", "t", "x", "t" >>
ClearMatches(dir, slug) == { n \in DOMAIN dir : GlobMatch(ClearPattern(slug), n) }

\* max_workers = max(1, min(4, len(prompt_keys)))
Min(a, b) == IF a < b THEN a ELSE b
Max(a, b) == IF a > b THEN a ELSE b
\* fault: one worker per prompt key, the cap of four left out
OneWorkerPerKey(n) == Max(1, n)

\* ThreadPoolExecutor(max_workers=max(1, min(4, len(prompt_keys))))
max_workers(n) == Max(1, Min(4, n))

(***************************************************************************)
(* Inputs of GET /insight/{slug}/{prompt_key} and POST /cache/clear/{slug}: *)
(* path parameters, any text without "/".                                  *)
(***************************************************************************)
SlugA0 == << "a", "-", "0" >>
ViewSlugs == { SlugA0, << "z" >> }
ViewKeys == { KeyWorkload, << "x" >> }
ClearSlugs == { SlugA0, << "*" >>, << "z" >>, << "*", "*" >> }
SlugA02 == << "a", "-", "0", "-", "2" >>
\* the key compare() passes to run_llm, which PROMPT_SPECS does not hold
KeyCompare == << "c", "o", "m", "p", "a", "r", "e" >>
PageSlugs == { SlugA0, << "z" >> }
CompareSlugs == { SlugA0, SlugA02, << "z" >> }

(***************************************************************************)
(* State.                                                                  *)
(***************************************************************************)
VARIABLES
  index,      \* index.json: the sequence idx["syllabi"] of records
  idxSaves,   \* number of _save_index calls so far
  uploads,    \* UPLOADS_DIR: file name -> content
  cache,      \* CACHE_DIR: file name -> text
  upl,        \* POST /upload requests: request number -> handler state
  pre,        \* background precompute tasks, one per accepted upload
  prn,        \* _prune_missing_files runs (startup, GET /): run number ->
              \* state of the run
  view,       \* GET /insight requests: request number -> handler state
  clr,        \* POST /cache/clear requests: request number -> handler state
  env         \* the environment: the requests it may still issue, what the
              \* external model may answer (replies), whether its calls may
              \* raise (fails), the catalog's size beyond PROMPT_SPECS (extra)
  ,
  req,        \* requests to the handlers that only read (syllabus_page,
              \* syllabus_pdf, compare): request number -> handler state
  call        \* one invocation of run_llm or _extract_pdf_text on its own


vars ==
  << index, idxSaves, uploads, cache, upl, pre, prn, view, clr, env, req, call >>

UploadIds == 1..MaxUploads
ViewIds == 1..MaxViews
PruneIds == 1..MaxPrunes
ClearIds == 1..MaxClears
ReqIds == 1..RouteOthers

NoInput == [ form |-> FormA0, name |-> << >>, doc |-> DocBad ]
IdleUpload ==
  [ pc |-> "idle", input |-> NoInput, idx |-> << >>, slug |-> << >>, status |-> 0 ]
\* keys: the local prompt_keys; fut: the futures list, one per prompt key
\* (st: queued, running, ok, err, taken), with the value run_one returned;
\* pos: the loop of the no-text branch; nwrit: cache writes of this run
\* per key
NoPre ==
  [ pc |-> "none", slug |-> << >>, filename |-> << >>, keys |-> << >>,
    fut |-> << >>, pos |-> 0, nwrit |-> << >> ]
\* idx: the index the run loaded; pos: the record its loop is at; kept and
\* changed: the locals of that name
IdlePrune ==
  [ pc |-> "idle", idx |-> << >>, pos |-> 0, kept |-> << >>, changed |-> FALSE ]
\* status, source and text: the response; llm: run_llm calls made; net:
\* calls to the external model made
IdleView ==
  [ pc |-> "idle", slug |-> << >>, key |-> << >>, filename |-> << >>,
    status |-> 0, source |-> "", text |-> << >>, llm |-> 0, net |-> 0 ]
\* left: the paths the glob yielded that are still to be unlinked
NoClear == [ pc |-> "idle", slug |-> << >>, left |-> { }, status |-> 0 ]
\* status: the response; hasA, filename: what _find_meta gave; read: the
\* texts load_cached gave so far; llm: run_llm calls made for it; net:
\* calls to the external model made for it
NoReq ==
  [ pc |-> "idle", route |-> "", a |-> << >>, b |-> << >>, hasA |-> FALSE,
    filename |-> << >>, status |-> 0, read |-> << >>, llm |-> 0, net |-> 0 ]
NoCall == [ fn |-> "" ]

\* nothing uploaded, no request being handled
IdleSystem ==
  /\ index = << >>
  /\ idxSaves = 0
  /\ uploads = << >>
  /\ cache = << >>
  /\ upl = [ u \in UploadIds |-> IdleUpload ]
  /\ pre = [ u \in UploadIds |-> NoPre ]
  /\ prn = [ p \in PruneIds |-> IdlePrune ]
  /\ view = [ v \in ViewIds |-> IdleView ]
  /\ clr = [ c \in ClearIds |-> NoClear ]
  /\ req = [ r \in ReqIds |-> NoReq ]

TypeInit ==
  /\ IdleSystem
  /\ call = NoCall

\* the environment of a specification
Env(nu, np, nd, nv, nc, replies, fails, extra, nr) ==
  [ upload |-> nu, prune |-> np, delete |-> nd, view |-> nv, clear |-> nc,
    replies |-> replies, fails |-> fails, extra |-> extra, other |-> nr ]

\* after startup with an empty folder: index.json holds no record
Init ==
  /\ TypeInit
  /\ env = Env(SysUploads, SysPrunes, SysDeletes, SysViews, SysClears,
               { ReplyOk }, TRUE, 0, 0)

(***************************************************************************)
(* File-system helpers.                                                    *)
(***************************************************************************)
\* Path.exists
Exists(dir, name) == name \in DOMAIN dir
\* Path.write_text / open("wb"): create or overwrite one file
WriteFile(dir, name, content) ==
  [ n \in (DOMAIN dir) \cup { name } |-> IF n = name THEN content ELSE dir[n] ]
\* Path.unlink of a set of files
RemoveFiles(dir, names) == [ n \in (DOMAIN dir) \ names |-> dir[n] ]

(***************************************************************************)
(* POST /upload                                                            *)
(***************************************************************************)
\* requests are numbered in the order they arrive
NextUpload(u) ==
  /\ u <= env.upload
  /\ upl[u].pc = "idle"
  /\ \A v \in UploadIds : v < u => upl[v].pc # "idle"

\* a file that is not a PDF: HTTP 400 before anything is read or written
UploadReject(u) ==
  /\ NextUpload(u)
  /\ \E inp \in UploadInputs :
       /\ ~ IsPdfName(inp.name)
       /\ upl' = [ upl EXCEPT ![u] =
                     [ @ EXCEPT !.pc = "rejected", !.input = inp, !.status = 400 ] ]
  /\ UNCHANGED << index, idxSaves, uploads, cache, pre, prn, view, clr, env, req, call >>

\* _load_index, the set of existing slugs, _slugify and _unique_slug
UploadLoad(u) ==
  /\ NextUpload(u)
  /\ \E inp \in UploadInputs :
       /\ IsPdfName(inp.name)
       /\ upl' = [ upl EXCEPT ![u] =
                     [ @ EXCEPT !.pc = "loaded", !.input = inp, !.idx = index,
                         !.slug = unique_slug(base_slug(inp.form), SlugsOf(index)) ] ]
  /\ UNCHANGED << index, idxSaves, uploads, cache, pre, prn, view, clr, env, req, call >>

\* fault: precompute is scheduled when the PDF is stored, ahead of the save
UploadStoreAndSchedule(u) ==
  /\ upl[u].pc = "loaded"
  /\ uploads' = WriteFile(uploads, PdfFilename(upl[u].slug), upl[u].input.doc)
  /\ upl' = [ upl EXCEPT ![u].pc = "stored" ]
  /\ pre' = [ pre EXCEPT ![u] =
                [ NoPre EXCEPT !.pc = "scheduled", !.slug = upl[u].slug,
                               !.filename = PdfFilename(upl[u].slug) ] ]
  /\ UNCHANGED << index, idxSaves, cache, prn, view, clr, env, req, call >>

\* pdf_path.open("wb") and shutil.copyfileobj: the PDF is stored
UploadStore(u) ==
  /\ upl[u].pc = "loaded"
  /\ uploads' = WriteFile(uploads, PdfFilename(upl[u].slug), upl[u].input.doc)
  /\ upl' = [ upl EXCEPT ![u].pc = "stored" ]
  /\ UNCHANGED << index, idxSaves, cache, pre, prn, view, clr, env, req, call >>

\* idx["syllabi"].append(record), _save_index(idx), add_task, redirect 303
UploadSave(u) ==
  /\ upl[u].pc = "stored"
  /\ index' = Append(upl[u].idx, NewRecord(upl[u].input.form, upl[u].slug, u))
  /\ idxSaves' = idxSaves + 1
  /\ upl' = [ upl EXCEPT ![u] = [ @ EXCEPT !.pc = "done", !.status = 303 ] ]
  /\ pre' = [ pre EXCEPT ![u] =
                [ NoPre EXCEPT !.pc = "scheduled", !.slug = upl[u].slug,
                               !.filename = PdfFilename(upl[u].slug) ] ]
  /\ UNCHANGED << uploads, cache, prn, view, clr, env, req, call >>

(***************************************************************************)
(* _prune_missing_files (startup and GET /)                                *)
(***************************************************************************)
\* fault: every record is kept
KeepAll(rec, dir) == TRUE

\* the test of one record in the loop of _prune_missing_files: it has a
\* filename and (UPLOADS_DIR / filename).exists()
Kept(rec, dir) == rec.filename # << >> /\ Exists(dir, rec.filename)

\* runs are numbered in the order they start
NextPrune(p) ==
  /\ prn[p].pc = "idle"
  /\ \A q \in PruneIds : q < p => prn[q].pc # "idle"
  /\ env.prune > 0

\* idx = _load_index()
PruneLoad(p) ==
  /\ NextPrune(p)
  /\ env' = [ env EXCEPT !.prune = @ - 1 ]
  /\ prn' = [ prn EXCEPT ![p] =
                [ IdlePrune EXCEPT !.pc = "loop", !.idx = index, !.pos = 1 ] ]
  /\ UNCHANGED << index, idxSaves, uploads, cache, upl, pre, view, clr, req, call >>

\* one turn of the loop: the record is appended to kept, or changed is set
PruneTest(p) ==
  /\ prn[p].pc = "loop"
  /\ prn[p].pos <= Len(prn[p].idx)
  /\ LET rec == prn[p].idx[prn[p].pos]
     IN  prn' = [ prn EXCEPT ![p] =
                    IF Kept(rec, uploads)
                    THEN [ @ EXCEPT !.kept = Append(@, rec), !.pos = @ + 1 ]
                    ELSE [ @ EXCEPT !.changed = TRUE, !.pos = @ + 1 ] ]
  /\ UNCHANGED << index, idxSaves, uploads, cache, upl, pre, view, clr, env, req, call >>

\* after the loop: idx["syllabi"] = kept and _save_index(idx) if changed
PruneFinish(p) ==
  /\ prn[p].pc = "loop"
  /\ prn[p].pos > Len(prn[p].idx)
  /\ index' = IF prn[p].changed THEN prn[p].kept ELSE index
  /\ idxSaves' = IF prn[p].changed THEN idxSaves + 1 ELSE idxSaves
  /\ prn' = [ prn EXCEPT ![p] = [ IdlePrune EXCEPT !.pc = "done" ] ]
  /\ UNCHANGED << uploads, cache, upl, pre, view, clr, env, req, call >>

\* the environment: a stored PDF is removed from the uploads folder
DeleteUpload ==
  /\ env.delete > 0
  /\ \E n \in DOMAIN uploads :
       uploads' = RemoveFiles(uploads, { n })
  /\ env' = [ env EXCEPT !.delete = @ - 1 ]
  /\ UNCHANGED << index, idxSaves, cache, upl, pre, prn, view, clr, req, call >>

(***************************************************************************)
(* _precompute_insights, the background task of an accepted upload         *)
(***************************************************************************)
Queued == [ st |-> "queued", out |-> << >> ]

\* generation calls of run u that are in flight
InFlight(u) == Cardinality({ i \in DOMAIN pre[u].fut : pre[u].fut[i].st = "running" })

\* futures = [ex.submit(run_one, k) for k in prompt_keys]
Submit(keys) == [ i \in DOMAIN keys |-> Queued ]

\* _extract_pdf_text once and prompt_keys; no text: the fallback branch;
\* else one future per prompt key is submitted to a ThreadPoolExecutor
PreStart(u) ==
  /\ pre[u].pc = "scheduled"
  /\ LET text == extract_pdf_text(uploads, pre[u].filename, DEFAULT_MAX_CHARS)
         keys == Catalog(env.extra)
         zero == [ i \in DOMAIN keys |-> 0 ]
     IN  pre' = [ pre EXCEPT ![u] =
                    IF IsBlank(text)
                    THEN [ @ EXCEPT !.pc = "fallback", !.keys = keys, !.pos = 1,
                                    !.nwrit = zero ]
                    ELSE [ @ EXCEPT !.pc = "pool", !.keys = keys,
                                    !.fut = Submit(keys), !.nwrit = zero ] ]
  /\ UNCHANGED << index, idxSaves, uploads, cache, upl, prn, view, clr, env, req, call >>

\* fault: the loop of the no-text branch ends after its first write
PreFallbackWriteFirst(u) ==
  /\ pre[u].pc = "fallback"
  /\ LET i == pre[u].pos
     IN  /\ cache' = WriteFile(cache, cache_file(pre[u].slug, pre[u].keys[i]),
                               MsgNoTextPre)
         /\ pre' = [ pre EXCEPT ![u] =
                       [ @ EXCEPT !.nwrit[i] = @ + 1, !.pos = i + 1, !.pc = "done" ] ]
  /\ UNCHANGED << index, idxSaves, uploads, upl, prn, view, clr, env, req, call >>

\* "for k in prompt_keys: _cache_file(slug, k).write_text(msg)", one write
PreFallbackWrite(u) ==
  /\ pre[u].pc = "fallback"
  /\ LET i == pre[u].pos
     IN  /\ cache' = WriteFile(cache, cache_file(pre[u].slug, pre[u].keys[i]),
                               MsgNoTextPre)
         /\ pre' = [ pre EXCEPT ![u] =
                       [ @ EXCEPT !.nwrit[i] = @ + 1, !.pos = i + 1,
                           !.pc = IF i = Len(pre[u].keys) THEN "done" ELSE "fallback" ] ]
  /\ UNCHANGED << index, idxSaves, uploads, upl, prn, view, clr, env, req, call >>

\* a worker of the pool is free (at most max_workers threads exist)
WorkerFree(u) == InFlight(u) < max_workers(Len(pre[u].keys))

\* a free worker takes the oldest queued future (the pool's work queue is
\* first in, first out) and run_one calls run_llm, which calls the model
PreCallStart(u, i) ==
  /\ pre[u].pc \in { "pool", "raised" }
  /\ i \in DOMAIN pre[u].fut
  /\ pre[u].fut[i].st = "queued"
  /\ \A j \in 1..(i - 1) : pre[u].fut[j].st # "queued"
  /\ WorkerFree(u)
  /\ pre' = [ pre EXCEPT ![u].fut[i].st = "running" ]
  /\ UNCHANGED << index, idxSaves, uploads, cache, upl, prn, view, clr, env, req, call >>

\* the model answers and run_llm returns, or the call raises
PreCallReturn(u, i) ==
  /\ pre[u].pc \in { "pool", "raised" }
  /\ i \in DOMAIN pre[u].fut
  /\ pre[u].fut[i].st = "running"
  /\ \/ \E reply \in env.replies :
          pre' = [ pre EXCEPT ![u].fut[i] =
                     [ st |-> "ok", out |-> run_llm_result(pre[u].keys[i], reply) ] ]
     \/ /\ env.fails
        /\ pre' = [ pre EXCEPT ![u].fut[i] = [ st |-> "err", out |-> << >> ] ]
  /\ UNCHANGED << index, idxSaves, uploads, cache, upl, prn, view, clr, env, req, call >>

\* fault: run_one's key is lost, every result goes to the first key's entry
TakeFileFirst(u, i) == cache_file(pre[u].slug, pre[u].keys[1])

\* the cache entry a result of run u for its i-th key is written to
TakeFile(u, i) == cache_file(pre[u].slug, pre[u].keys[i])

\* as_completed yields a finished future whose call returned: its result is
\* written to the cache; after the last one the pool is shut down
PreTake(u, i) ==
  /\ pre[u].pc = "pool"
  /\ i \in DOMAIN pre[u].fut
  /\ pre[u].fut[i].st = "ok"
  /\ cache' = WriteFile(cache, TakeFile(u, i), pre[u].fut[i].out)
  /\ pre' = [ pre EXCEPT ![u] =
                [ @ EXCEPT !.fut[i] = [ st |-> "taken", out |-> << >> ],
                    !.nwrit[i] = @ + 1,
                    !.pc = IF \A j \in DOMAIN pre[u].fut \ { i } :
                                 pre[u].fut[j].st = "taken"
                           THEN "done" ELSE "pool" ] ]
  /\ UNCHANGED << index, idxSaves, uploads, upl, prn, view, clr, env, req, call >>

\* as_completed yields a finished future whose call raised: f.result()
\* raises, and the exception leaves the loop and the "with" block
PreRaise(u, i) ==
  /\ pre[u].pc = "pool"
  /\ i \in DOMAIN pre[u].fut
  /\ pre[u].fut[i].st = "err"
  /\ pre' = [ pre EXCEPT ![u].pc = "raised" ]
  /\ UNCHANGED << index, idxSaves, uploads, cache, upl, prn, view, clr, env, req, call >>

\* ThreadPoolExecutor.__exit__: shutdown(wait=True) returns once no future
\* is queued or running; the exception then ends the background task
PreShutdown(u) ==
  /\ pre[u].pc = "raised"
  /\ \A j \in DOMAIN pre[u].fut : pre[u].fut[j].st \notin { "queued", "running" }
  /\ pre' = [ pre EXCEPT ![u].pc = "failed" ]
  /\ UNCHANGED << index, idxSaves, uploads, cache, upl, prn, view, clr, env, req, call >>

(***************************************************************************)
(* GET /insight/{slug}/{prompt_key}                                        *)
(***************************************************************************)
\* _find_meta: the first record of the index with this slug, if any
HasMeta(idx, slug) == \E i \in DOMAIN idx : idx[i].slug = slug
find_meta(idx, slug) ==
  idx[CHOOSE i \in DOMAIN idx :
        idx[i].slug = slug /\ \A j \in 1..(i - 1) : idx[j].slug # slug]

\* fault: the existence check never finds the entry
CacheNeverHit(dir, slug, key) == FALSE

\* insight_partial: cache_path.exists()
CacheHit(dir, slug, key) == Exists(dir, cache_file(slug, key))

NextView(v) ==
  /\ view[v].pc = "idle"
  /\ \A w \in ViewIds : w < v => view[w].pc # "idle"
  /\ env.view > 0

\* the check of the key and _find_meta
ViewBegin(v) ==
  /\ NextView(v)
  /\ \E slug \in ViewSlugs, key \in ViewKeys :
       view' = [ view EXCEPT ![v] =
         IF key \notin Range(Catalog(env.extra))
         THEN [ @ EXCEPT !.pc = "done", !.slug = slug, !.key = key, !.status = 400 ]
         ELSE IF ~ HasMeta(index, slug)
         THEN [ @ EXCEPT !.pc = "done", !.slug = slug, !.key = key, !.status = 404 ]
         ELSE [ @ EXCEPT !.pc = "found", !.slug = slug, !.key = key,
                         !.filename = find_meta(index, slug).filename ] ]
  /\ env' = [ env EXCEPT !.view = @ - 1 ]
  /\ UNCHANGED << index, idxSaves, uploads, cache, upl, pre, prn, clr, req, call >>

\* cache_path.exists()
ViewTest(v) ==
  /\ view[v].pc = "found"
  /\ view' = [ view EXCEPT ![v].pc =
                IF CacheHit(cache, view[v].slug, view[v].key) THEN "hit" ELSE "miss" ]
  /\ UNCHANGED << index, idxSaves, uploads, cache, upl, pre, prn, clr, env, req, call >>

\* cache_path.read_text(): the entry is served with source "cache"; if the
\* file is gone by now the read raises, HTTP 500
ViewRead(v) ==
  /\ view[v].pc = "hit"
  /\ LET f == cache_file(view[v].slug, view[v].key)
     IN  view' = [ view EXCEPT ![v] =
                     IF Exists(cache, f)
                     THEN [ @ EXCEPT !.pc = "done", !.status = 200,
                                     !.source = "cache", !.text = cache[f] ]
                     ELSE [ @ EXCEPT !.pc = "done", !.status = 500 ] ]
  /\ UNCHANGED << index, idxSaves, uploads, cache, upl, pre, prn, clr, env, req, call >>

\* no entry: _extract_pdf_text and run_llm; for blank text run_llm returns
\* its message without the model; else the model is called
ViewGenerate(v) ==
  /\ view[v].pc = "miss"
  /\ LET text == extract_pdf_text(uploads, view[v].filename, DEFAULT_MAX_CHARS)
     IN  view' = [ view EXCEPT ![v] =
                     IF IsBlank(text)
                     THEN [ @ EXCEPT !.pc = "notext", !.llm = @ + 1 ]
                     ELSE [ @ EXCEPT !.pc = "calling", !.llm = @ + 1, !.net = @ + 1 ] ]
  /\ UNCHANGED << index, idxSaves, uploads, cache, upl, pre, prn, clr, env, req, call >>

\* cache_path.write_text(text) of the message run_llm returned for blank
\* text, which is served
ViewWriteNoText(v) ==
  /\ view[v].pc = "notext"
  /\ cache' = WriteFile(cache, cache_file(view[v].slug, view[v].key), MsgNoTextLlm)
  /\ view' = [ view EXCEPT ![v] =
                 [ @ EXCEPT !.pc = "done", !.status = 200,
                     !.source = "generated", !.text = MsgNoTextLlm ] ]
  /\ UNCHANGED << index, idxSaves, uploads, upl, pre, prn, clr, env, req, call >>

\* fault: the generated result is served but cache_path.write_text is left out
ViewReturnNoWrite(v) ==
  /\ view[v].pc = "calling"
  /\ \E reply \in env.replies :
       view' = [ view EXCEPT ![v] =
                   [ @ EXCEPT !.pc = "done", !.status = 200, !.source = "generated",
                       !.text = run_llm_result(view[v].key, reply) ] ]
  /\ UNCHANGED << index, idxSaves, uploads, cache, upl, pre, prn, clr, env, req, call >>

\* the model answers: the result is written and served; or the call
\* raises: an unhandled exception, HTTP 500, nothing written
ViewReturn(v) ==
  /\ view[v].pc = "calling"
  /\ \/ \E reply \in env.replies :
          LET out == run_llm_result(view[v].key, reply)
          IN  /\ cache' = WriteFile(cache, cache_file(view[v].slug, view[v].key), out)
              /\ view' = [ view EXCEPT ![v] =
                             [ @ EXCEPT !.pc = "done", !.status = 200,
                                 !.source = "generated", !.text = out ] ]
     \/ /\ env.fails
        /\ cache' = cache
        /\ view' = [ view EXCEPT ![v] = [ @ EXCEPT !.pc = "done", !.status = 500 ] ]
  /\ UNCHANGED << index, idxSaves, uploads, upl, pre, prn, clr, env, req, call >>

(***************************************************************************)
(* POST /cache/clear/{slug}                                                *)
(***************************************************************************)
\* requests are numbered in the order they arrive
NextClear(c) ==
  /\ clr[c].pc = "idle"
  /\ \A d \in ClearIds : d < c => clr[d].pc # "idle"
  /\ env.clear > 0

\* the glob lists the directory when the loop asks for its first path: it
\* raises for a pattern it rejects (unhandled, HTTP 500), else yields the
\* matching names; with none, redirect 303
ClearCache(c) ==
  /\ NextClear(c)
  /\ \E slug \in ClearSlugs :
       clr' = [ clr EXCEPT ![c] =
         IF GlobRaises(ClearPattern(slug))
         THEN [ @ EXCEPT !.pc = "done", !.slug = slug, !.status = 500 ]
         ELSE IF ClearMatches(cache, slug) = { }
         THEN [ @ EXCEPT !.pc = "done", !.slug = slug, !.status = 303 ]
         ELSE [ @ EXCEPT !.pc = "unlink", !.slug = slug,
                         !.left = ClearMatches(cache, slug) ] ]
  /\ env' = [ env EXCEPT !.clear = @ - 1 ]
  /\ UNCHANGED << index, idxSaves, uploads, cache, upl, pre, prn, view, req, call >>

\* one turn of the loop: p.unlink(), in the order of the directory listing
\* (any); a file that is gone raises, which is swallowed; after the last
\* path, redirect 303
ClearUnlink(c) ==
  /\ clr[c].pc = "unlink"
  /\ \E n \in clr[c].left :
       /\ cache' = RemoveFiles(cache, { n })
       /\ clr' = [ clr EXCEPT ![c] =
                     IF clr[c].left = { n }
                     THEN [ @ EXCEPT !.pc = "done", !.left = { }, !.status = 303 ]
                     ELSE [ @ EXCEPT !.left = @ \ { n } ] ]
  /\ UNCHANGED << index, idxSaves, uploads, upl, pre, prn, view, env, req, call >>

(***************************************************************************)
(* GET /syllabus/{slug}, GET /pdf/{slug}, GET /compare/{slug_a}/{slug_b}   *)
(***************************************************************************)
\* requests are numbered in the order they arrive
NextReq(r) ==
  /\ req[r].pc = "idle"
  /\ \A q \in ReqIds : q < r => req[q].pc # "idle"
  /\ env.other > 0

\* syllabus_page: 404 without a record, else the page
SyllabusPage(r) ==
  /\ NextReq(r)
  /\ \E slug \in PageSlugs :
       req' = [ req EXCEPT ![r] =
                  [ @ EXCEPT !.pc = "done", !.route = "syllabus", !.a = slug,
                      !.status = IF HasMeta(index, slug) THEN 200 ELSE 404 ] ]
  /\ env' = [ env EXCEPT !.other = @ - 1 ]
  /\ UNCHANGED << index, idxSaves, uploads, cache, upl, pre, prn, view, clr, call >>

\* syllabus_pdf, _find_meta: 404 without a record
SyllabusPdf(r) ==
  /\ NextReq(r)
  /\ \E slug \in PageSlugs :
       req' = [ req EXCEPT ![r] =
                  IF ~ HasMeta(index, slug)
                  THEN [ @ EXCEPT !.pc = "done", !.route = "pdf", !.a = slug,
                                  !.status = 404 ]
                  ELSE [ @ EXCEPT !.pc = "found", !.route = "pdf", !.a = slug,
                                  !.filename = find_meta(index, slug).filename ] ]
  /\ env' = [ env EXCEPT !.other = @ - 1 ]
  /\ UNCHANGED << index, idxSaves, uploads, cache, upl, pre, prn, view, clr, call >>

\* syllabus_pdf, path.exists(): 404 without the file, else the file
PdfTest(r) ==
  /\ req[r].pc = "found" /\ req[r].route = "pdf"
  /\ req' = [ req EXCEPT ![r] =
                [ @ EXCEPT !.pc = "done",
                    !.status = IF Exists(uploads, req[r].filename) THEN 200 ELSE 404 ] ]
  /\ UNCHANGED << index, idxSaves, uploads, cache, upl, pre, prn, view, clr, env, call >>

\* load_cached of compare: the placeholder for an entry that does not exist
NotGenerated ==
  << "(", "n", "o", "t", " ", "g", "e", "n", "e", "r", "a", "t", "e", "d", ")" >>
\* the keys compare loads for each document, in the order of the prompt
CompareKeys == << KeyTldr, KeyWorkload, KeyGrading >>

\* the entry the i-th load_cached of request r is for
CompareEntry(r, i) ==
  IF i <= 3 THEN cache_file(req[r].a, CompareKeys[i])
  ELSE cache_file(req[r].b, CompareKeys[i - 3])

\* after the sixth load_cached: run_llm("compare", prompt), which raises
\* KeyError at PROMPT_SPECS[prompt_key] unless the catalog holds the key
\* (HTTP 500, the model not called)
CompareCall(rq) ==
  IF Len(rq.read) < 6 THEN rq
  ELSE IF KeyCompare \notin DOMAIN PROMPT_SPECS
       THEN [ rq EXCEPT !.pc = "done", !.status = 500, !.llm = 1 ]
       ELSE [ rq EXCEPT !.pc = "done", !.status = 200, !.llm = 1, !.net = 1 ]

\* compare, a = _find_meta(slug_a)
Compare(r) ==
  /\ NextReq(r)
  /\ \E a \in CompareSlugs, b \in CompareSlugs :
       req' = [ req EXCEPT ![r] =
                  [ @ EXCEPT !.pc = "finda", !.route = "compare", !.a = a, !.b = b,
                      !.hasA = HasMeta(index, a) ] ]
  /\ env' = [ env EXCEPT !.other = @ - 1 ]
  /\ UNCHANGED << index, idxSaves, uploads, cache, upl, pre, prn, view, clr, call >>

\* b = _find_meta(slug_b); without both records the branch reads the local
\* "result" before any assignment (UnboundLocalError, HTTP 500)
CompareFindB(r) ==
  /\ req[r].pc = "finda"
  /\ req' = [ req EXCEPT ![r] =
                IF ~ req[r].hasA \/ ~ HasMeta(index, req[r].b)
                THEN [ @ EXCEPT !.pc = "done", !.status = 500 ]
                ELSE [ @ EXCEPT !.pc = "load" ] ]
  /\ UNCHANGED << index, idxSaves, uploads, cache, upl, pre, prn, view, clr, env, call >>

\* load_cached, p.exists(): without the entry, the placeholder
CompareLoad(r) ==
  /\ req[r].pc = "load"
  /\ req' = [ req EXCEPT ![r] =
                IF Exists(cache, CompareEntry(r, Len(req[r].read) + 1))
                THEN [ @ EXCEPT !.pc = "read" ]
                ELSE CompareCall([ @ EXCEPT !.read = Append(@, NotGenerated) ]) ]
  /\ UNCHANGED << index, idxSaves, uploads, cache, upl, pre, prn, view, clr, env, call >>

\* load_cached, p.read_text(): the entry; if the file is gone by now the
\* read raises, HTTP 500
CompareRead(r) ==
  /\ req[r].pc = "read"
  /\ LET f == CompareEntry(r, Len(req[r].read) + 1)
     IN  req' = [ req EXCEPT ![r] =
                    IF Exists(cache, f)
                    THEN CompareCall([ @ EXCEPT !.pc = "load",
                                                 !.read = Append(@, cache[f]) ])
                    ELSE [ @ EXCEPT !.pc = "done", !.status = 500 ] ]
  /\ UNCHANGED << index, idxSaves, uploads, cache, upl, pre, prn, view, clr, env, call >>

(***************************************************************************)
(* run_llm on its own: one invocation, from the call to its return.        *)
(***************************************************************************)
sysvars == << index, idxSaves, uploads, cache, upl, pre, prn, view, clr, env, req >>

LlmKeys == { KeyTldr, KeyWorkload, KeyCompare }
LlmTexts == { << >>, << " " >>, << "\n", " ", "\t" >>, << "h", "i" >>, << " ", "h" >> }

\* resp.text: every text of at most n characters over ReplyChars, and some
\* longer ones; "resp.text or ''" makes None the empty text
ReplyChars == { "{", "}", "1", " " }
RECURSIVE TextsUpTo(_)
TextsUpTo(n) ==
  IF n = 0 THEN { << >> }
  ELSE LET shorter == TextsUpTo(n - 1)
       IN  shorter \cup { Append(t, c) : t \in shorter, c \in ReplyChars }
ObjA1 == << "{", "\"", "a", "\"", ":", "1", "}" >>
LongReplies ==
  { ObjA1,
    << " " >> \o ObjA1 \o << "\n" >>,
    << "x", " " >> \o ObjA1 \o << " ", "y" >>,
    Fence \o << "j", "s", "o", "n", "\n" >> \o ObjA1 \o << "\n" >> \o Fence,
    Fence \o ObjA1,
    Fence \o << "a" >> \o Fence \o ObjA1,
    Fence \o ObjA1 \o Fence \o << "}" >>,
    << "x" >> \o Fence \o ObjA1 \o Fence,
    << "{", "\"", "a", "\"", ":", "1", ",", "}" >>,
    << "{", "\"", "a", "\"", ":", "{", "\"", "b", "\"", ":", "\"", "c", "\"", "}", "}" >>,
    << "{", "\"", "a", "\"", ":", "[", "1", ",", "n", "u", "l", "l", "]", ",",
       "\"", "a", "\"", ":", "[", "]", "}" >>,
    << "{", "\"", "a", "\"", ":", "0", "1", "}" >>,
    << "[", "{", "}", "]" >>,
    << "}", "a", "{" >>,
    << "o", "k" >> }
LlmReplies == TextsUpTo(MaxReplyLen) \cup LongReplies

InitLlm ==
  /\ IdleSystem
  /\ env = Env(0, 0, 0, 0, 0, LlmReplies, TRUE, 0, 0)
  /\ call \in { [ fn |-> "run_llm", pc |-> "called", key |-> k, text |-> t,
                  net |-> 0, reply |-> << >>, out |-> << >> ] :
                k \in LlmKeys, t \in LlmTexts }

\* spec = PROMPT_SPECS[prompt_key] (KeyError for a key not in it), the
\* check for blank text, and the request sent to the model
LlmEnter ==
  /\ call.fn = "run_llm" /\ call.pc = "called"
  /\ call' =
       IF call.key \notin DOMAIN PROMPT_SPECS THEN [ call EXCEPT !.pc = "raised" ]
       ELSE IF IsBlank(call.text)
       THEN [ call EXCEPT !.pc = "returned", !.out = MsgNoTextLlm ]
       ELSE [ call EXCEPT !.pc = "model", !.net = @ + 1 ]
  /\ UNCHANGED sysvars

\* generate_content returns: the text is stripped and, in json mode, recovered
LlmModelReturns ==
  /\ call.fn = "run_llm" /\ call.pc = "model"
  /\ \E reply \in env.replies :
       call' = [ call EXCEPT !.pc = "returned", !.reply = reply,
                             !.out = run_llm_result(call.key, reply) ]
  /\ UNCHANGED sysvars

\* generate_content raises: run_llm does not catch it
LlmModelRaises ==
  /\ call.fn = "run_llm" /\ call.pc = "model"
  /\ env.fails
  /\ call' = [ call EXCEPT !.pc = "raised" ]
  /\ UNCHANGED sysvars

NextLlm == LlmEnter \/ LlmModelReturns \/ LlmModelRaises

SpecLlm == InitLlm /\ [][NextLlm]_vars

(***************************************************************************)
(* _extract_pdf_text on its own: one invocation, page by page.             *)
(***************************************************************************)
PageTexts == { << >>, << "a" >>, << "b", "c" >>, << " " >> }
RECURSIVE PageLists(_)
PageLists(n) ==
  IF n = 0 THEN { << >> }
  ELSE LET shorter == PageLists(n - 1)
       IN  shorter \cup { Append(ps, t) : ps \in shorter, t \in PageTexts }
\* the folder pdf_path is in: without the file, with a file pypdf cannot
\* read (empty, corrupt), or with a PDF of some pages
ExtractDirs ==
  { << >>, NamePdf :> DocBad }
    \cup { NamePdf :> [ readable |-> TRUE, pages |-> ps ] : ps \in PageLists(MaxPages) }

\* read: how many pages page.extract_text() was called on
InitExtract ==
  /\ IdleSystem
  /\ env = Env(0, 0, 0, 0, 0, { }, FALSE, 0, 0)
  /\ call \in { [ fn |-> "extract", pc |-> "called", dir |-> d, name |-> NamePdf,
                  max_chars |-> n, parts |-> << >>, total |-> 0, read |-> 0,
                  out |-> << >> ] :
                d \in ExtractDirs, n \in 0..MaxChars }

\* PdfReader(str(pdf_path)): raises for a missing or unreadable file, and
\* the except clause returns ""
ExtractOpen ==
  /\ call.fn = "extract" /\ call.pc = "called"
  /\ call' =
       IF ~ Exists(call.dir, call.name) THEN [ call EXCEPT !.pc = "returned" ]
       ELSE IF ~ call.dir[call.name].readable THEN [ call EXCEPT !.pc = "returned" ]
       ELSE [ call EXCEPT !.pc = "pages" ]
  /\ UNCHANGED sysvars

\* one turn of "for page in reader.pages"
ExtractPage ==
  /\ call.fn = "extract" /\ call.pc = "pages"
  /\ call.read < Len(call.dir[call.name].pages)
  /\ LET t == call.dir[call.name].pages[call.read + 1]
         total2 == IF t # << >> THEN call.total + Len(t) ELSE call.total
     IN  call' = [ call EXCEPT !.read = @ + 1,
                               !.parts = IF t # << >> THEN Append(@, t) ELSE @,
                               !.total = total2,
                               !.pc = IF total2 >= call.max_chars THEN "join" ELSE "pages" ]
  /\ UNCHANGED sysvars

\* the loop ends (no page left, or the break): "\n\n".join(parts)[:max_chars]
ExtractJoin ==
  /\ call.fn = "extract"
  /\ \/ call.pc = "join"
     \/ call.pc = "pages" /\ call.read = Len(call.dir[call.name].pages)
  /\ call' = [ call EXCEPT !.pc = "returned",
                           !.out = Prefix(JoinParts(call.parts), call.max_chars) ]
  /\ UNCHANGED sysvars

NextExtract == ExtractOpen \/ ExtractPage \/ ExtractJoin

SpecExtract == InitExtract /\ [][NextExtract]_vars

(***************************************************************************)
(* Specifications.                                                         *)
(***************************************************************************)
KeyIds == 1..(Len(prompt_keys) + ExtraKeys + 1)

PreStep(u) ==
  \/ PreStart(u)
  \/ PreFallbackWrite(u)
  \/ \E i \in KeyIds : PreCallStart(u, i)
  \/ \E i \in KeyIds : PreCallReturn(u, i)
  \/ \E i \in KeyIds : PreTake(u, i)
  \/ \E i \in KeyIds : PreRaise(u, i)
  \/ PreShutdown(u)

UploadStep(u) ==
  \/ UploadReject(u)
  \/ UploadLoad(u)
  \/ UploadStore(u)
  \/ UploadSave(u)

ViewStep(v) ==
  \/ ViewBegin(v)
  \/ ViewTest(v)
  \/ ViewRead(v)
  \/ ViewGenerate(v)
  \/ ViewWriteNoText(v)
  \/ ViewReturn(v)

PruneStep(p) ==
  \/ PruneLoad(p)
  \/ PruneTest(p)
  \/ PruneFinish(p)

ClearStep(c) ==
  \/ ClearCache(c)
  \/ ClearUnlink(c)

CompareStep(r) ==
  \/ Compare(r)
  \/ CompareFindB(r)
  \/ CompareLoad(r)
  \/ CompareRead(r)

\* the whole system
Next ==
  \/ \E u \in UploadIds : UploadStep(u)
  \/ \E u \in UploadIds : PreStep(u)
  \/ \E v \in ViewIds : ViewStep(v)
  \/ \E c \in ClearIds : ClearStep(c)
  \/ \E p \in PruneIds : PruneStep(p)
  \/ DeleteUpload

Spec == Init /\ [][Next]_vars

\* the Document Index alone: uploads, prunes and removed PDFs
InitIndex ==
  /\ TypeInit
  /\ env = Env(MaxUploads, MaxPrunes, MaxDeletes, 0, 0, { }, FALSE, 0, 0)

NextIndex ==
  \/ \E u \in UploadIds : UploadStep(u)
  \/ \E p \in PruneIds : PruneStep(p)
  \/ DeleteUpload

SpecIndex == InitIndex /\ [][NextIndex]_vars

\* one upload and its precompute
InitPre ==
  /\ TypeInit
  /\ env = Env(PreUploads, 0, 0, 0, 0, ModelReplies, TRUE, 0, 0)

NextPre ==
  \/ \E u \in UploadIds : UploadStep(u)
  \/ \E u \in UploadIds : PreStep(u)

SpecPre == InitPre /\ [][NextPre]_vars

\* the threads of the background task and of the pool run, and a call to
\* the model returns or raises
FairPre == \A u \in UploadIds : WF_vars(PreStep(u))
SpecPreFair == SpecPre /\ FairPre

\* precompute over a catalog of more than four entries
InitPool ==
  /\ TypeInit
  /\ env = Env(PreUploads, 0, 0, 0, 0, { ReplyOk }, TRUE, ExtraKeys, 0)

SpecPool == InitPool /\ [][NextPre]_vars

\* uploads, precompute, views and cache-clear
InitCache ==
  /\ TypeInit
  /\ env = Env(PreUploads, 0, 0, MaxViews, MaxClears, { ReplyOk }, TRUE, 0, 0)

NextCache ==
  \/ \E u \in UploadIds : UploadStep(u)
  \/ \E u \in UploadIds : PreStep(u)
  \/ \E v \in ViewIds : ViewStep(v)
  \/ \E c \in ClearIds : ClearStep(c)

SpecCache == InitCache /\ [][NextCache]_vars

\* two uploads and their precomputes, the model answering every call
InitPair ==
  /\ TypeInit
  /\ env = Env(PairUploads, 0, 0, 0, 0, { ReplyOk }, FALSE, 0, 0)

NextPair ==
  \/ \E u \in UploadIds : UploadStep(u)
  \/ \E u \in UploadIds : PreStart(u)
  \/ \E u \in UploadIds : PreFallbackWrite(u)
  \/ \E u \in UploadIds, i \in KeyIds : PreCallStart(u, i)
  \/ \E u \in UploadIds, i \in KeyIds : PreCallReturn(u, i)
  \/ \E u \in UploadIds, i \in KeyIds : PreTake(u, i)

SpecPair == InitPair /\ [][NextPair]_vars

\* every route: an upload whose precompute has not run yet, views, a
\* cache-clear and a page, pdf or compare request
InitRoutes ==
  /\ TypeInit
  /\ env = Env(RouteUploads, 0, 0, RouteViews, RouteClears, { ReplyOk }, FALSE,
               0, RouteOthers)

NextRoutes ==
  \/ \E u \in UploadIds : UploadStep(u)
  \/ \E v \in ViewIds : ViewStep(v)
  \/ \E c \in ClearIds : ClearStep(c)
  \/ \E r \in ReqIds : SyllabusPage(r)
  \/ \E r \in ReqIds : SyllabusPdf(r)
  \/ \E r \in ReqIds : PdfTest(r)
  \/ \E r \in ReqIds : CompareStep(r)

SpecRoutes == InitRoutes /\ [][NextRoutes]_vars

\* the comparison of two documents: uploads whose precompute has not run
\* yet, views that generate entries, and a compare request
InitCompare ==
  /\ TypeInit
  /\ env = Env(CompareUploads, 0, 0, CompareViews, 0, { ReplyOk }, FALSE,
               0, RouteOthers)

NextCompare ==
  \/ \E u \in UploadIds : UploadStep(u)
  \/ \E v \in ViewIds : ViewStep(v)
  \/ \E r \in ReqIds : CompareStep(r)

SpecCompare == InitCompare /\ [][NextCompare]_vars

\* a slug given out again: uploads whose precompute has not run yet, views
\* that generate on demand, a removed PDF and a prune run
InitReuse ==
  /\ TypeInit
  /\ env = Env(ReuseUploads, ReusePrunes, ReuseDeletes, ReuseViews, 0,
               { ReplyOk }, FALSE, 0, 0)

NextReuse ==
  \/ \E u \in UploadIds : UploadStep(u)
  \/ \E v \in ViewIds : ViewStep(v)
  \/ \E p \in PruneIds : PruneStep(p)
  \/ DeleteUpload

SpecReuse == InitReuse /\ [][NextReuse]_vars

(***************************************************************************)
(* Properties.                                                             *)
(***************************************************************************)
\* a request is taken up by handler v: its path parameters are in view'[v]
Arrives(v) == view[v].pc = "idle" /\ view'[v].pc # "idle"
\* its key is in the catalog and a record of the index has its slug
Servable(v) ==
  /\ view'[v].key \in DOMAIN PROMPT_SPECS
  /\ \E i \in DOMAIN index : index[i].slug = view'[v].slug
\* the cache entry of the (slug, key) of request v
EntryOf(v) == cache_file(view[v].slug, view[v].key)
\* handler v tests in this step whether its entry exists
Tests(v) == view[v].pc = "found" /\ view'[v].pc # "found"

\* C1 (idempotence of viewing): when GET /insight/{slug}/{key} is handled
\* for an indexed slug and a catalog key whose cache entry exists, the
\* handler takes the cached branch; reading the entry, it answers 200 with
\* exactly the cached text and source "cache"; on the way it calls neither
\* run_llm nor the model and leaves every cache entry as it was.  Nothing
\* but a cache-clear removes the entry, so repeated views are served alike.
C1_ViewIdempotence ==
  [][ \A v \in ViewIds :
        /\ ( Arrives(v) /\ Servable(v) )
             => /\ view'[v].pc = "found"
                /\ cache' = cache
                /\ view'[v].llm = 0 /\ view'[v].net = 0
        /\ ( Tests(v) /\ EntryOf(v) \in DOMAIN cache )
             => /\ view'[v].pc = "hit"
                /\ cache' = cache
                /\ view'[v].llm = 0 /\ view'[v].net = 0
        /\ ( view[v].pc = "hit" /\ view'[v] # view[v] /\ EntryOf(v) \in DOMAIN cache )
             => /\ view'[v].pc = "done" /\ view'[v].status = 200
                /\ view'[v].source = "cache"
                /\ view'[v].text = cache[EntryOf(v)]
                /\ cache' = cache
                /\ view'[v].llm = 0 /\ view'[v].net = 0
    ]_vars

\* two views of the same (slug, key) were both served from the cache
C1_Witness ==
  /\ view[1].pc = "done" /\ view[1].source = "cache"
  /\ view[2].pc = "done" /\ view[2].source = "cache"
  /\ view[1].slug = view[2].slug /\ view[1].key = view[2].key
  /\ view[1].text = view[2].text /\ view[1].text # << >>

\* the stored PDF of request v yields no text
NoText(v) ==
  IsBlank(extract_pdf_text(uploads, view[v].filename, DEFAULT_MAX_CHARS))
\* what run_llm can return for a PDF with text
Generated(v) == { run_llm_result(view[v].key, reply) : reply \in env.replies }

\* C2 (on-demand fallback): a view of an indexed slug and catalog key that
\* finds no cache entry takes the generating branch with the record's PDF,
\* extracts the stored PDF's text and calls run_llm exactly once: for no
\* text run_llm answers with its fixed message, else it calls the model
\* once.  When that branch answers 200, the text served is what run_llm
\* returned, that same text is now the cache entry of (slug, key), no
\* other entry changed, and the source is "generated".  The entry then stays until a cache-clear, and a
\* later view of the same (slug, key) that finds it takes the cached branch.
C2_OnDemandFallback ==
  [][ \A v \in ViewIds :
        /\ ( Arrives(v) /\ Servable(v) )
             => /\ view'[v].pc = "found"
                /\ \E i \in DOMAIN index :
                     /\ index[i].slug = view'[v].slug
                     /\ index[i].filename = view'[v].filename
        /\ ( Tests(v) /\ EntryOf(v) \notin DOMAIN cache )
             => view'[v].pc = "miss" /\ view'[v].filename = view[v].filename
        /\ ( view[v].pc = "miss" /\ view'[v] # view[v] )
             => /\ view'[v].llm = 1 /\ cache' = cache
                /\ IF NoText(v)
                   THEN view'[v].pc = "notext" /\ view'[v].net = 0
                   ELSE view'[v].pc = "calling" /\ view'[v].net = 1
        /\ ( view[v].pc = "notext" /\ view'[v] # view[v] )
             => /\ view'[v].pc = "done" /\ view'[v].status = 200
                /\ view'[v].text = MsgNoTextLlm
        /\ ( view[v].pc = "calling" /\ view'[v].pc = "done" /\ view'[v].status = 200 )
             => view'[v].text \in Generated(v)
        /\ ( /\ view[v].pc \in { "notext", "calling" }
             /\ view'[v].pc = "done" /\ view'[v].status = 200 )
             => /\ view'[v].source = "generated"
                /\ view'[v].llm = 1 /\ view'[v].net <= 1
                /\ EntryOf(v) \in DOMAIN cache'
                /\ cache'[EntryOf(v)] = view'[v].text
                /\ \A n \in DOMAIN cache : n \in DOMAIN cache' /\
                     (n # EntryOf(v) => cache'[n] = cache[n])
        /\ ( /\ view[v].pc = "done" /\ view[v].source = "generated"
             /\ clr' = clr /\ cache' # cache
             /\ EntryOf(v) \in DOMAIN cache )
             => EntryOf(v) \in DOMAIN cache'
        /\ ( view[v].pc = "done" /\ view[v].source = "generated" /\ view' # view )
             => \A w \in ViewIds :
                  ( /\ Tests(w) /\ view[w].slug = view[v].slug
                    /\ view[w].key = view[v].key
                    /\ EntryOf(v) \in DOMAIN cache )
                    => view'[w].pc = "hit"
    ]_vars

\* a view generated the entry and the next view of it was served from the
\* cache, with the text the first one produced
C2_Witness ==
  /\ view[1].pc = "done" /\ view[1].source = "generated"
  /\ view[2].pc = "done" /\ view[2].source = "cache"
  /\ view[1].slug = view[2].slug /\ view[1].key = view[2].key
  /\ view[2].text = view[1].text

\* run u went through the thread pool (its PDF had text)
Pooled(u) == pre[u].fut # << >>
\* the cache entries whose names start with the slug of run u and "__"
EntriesOfRun(u) ==
  { n \in DOMAIN cache : StartsWith(n, pre[u].slug \o << "_", "_" >>) }
\* a generation call of run u has raised
SomeCallRaised(u) ==
  \E i \in DOMAIN pre[u].fut : pre[u].fut[i].st = "err"

\* C3 (precompute completeness): the precompute run scheduled by an accepted
\* upload eventually terminates unless one of its model calls raises; and
\* when a run whose PDF has text has terminated with every call returned,
\* it has written exactly
\* once for each key of the catalog, each key's entry is in the cache, and
\* the cache holds no other entry of that slug -- in whatever order the
\* calls completed.
C3_PrecomputeCompleteness ==
  /\ [] ( \A u \in UploadIds :
            ( pre[u].pc = "done" /\ Pooled(u) )
              => /\ DOMAIN pre[u].nwrit = DOMAIN prompt_keys
                 /\ \A i \in DOMAIN prompt_keys : pre[u].nwrit[i] = 1
                 /\ EntriesOfRun(u) =
                      { cache_file(pre[u].slug, prompt_keys[i]) : i \in DOMAIN prompt_keys } )
  /\ \A u \in UploadIds :
       ( pre[u].pc = "scheduled" ) ~> ( pre[u].pc = "done" \/ SomeCallRaised(u) )

\* a run has terminated after results that differ from key to key were
\* written
C3_Witness ==
  \E u \in UploadIds :
    /\ pre[u].pc = "done" /\ Pooled(u)
    /\ Cardinality(EntriesOfRun(u)) = Len(prompt_keys)
    /\ \E n, m \in EntriesOfRun(u) : cache[n] # cache[m]

\* C4 (bounded parallelism of one precompute): in every reachable state
\* the generation calls in flight of any one run number at most
\* min(4, number of catalog keys); with the workers all busy, the run's
\* other requests are still queued.
C4_BoundedParallelism ==
  \A u \in UploadIds :
    LET running == { i \in DOMAIN pre[u].fut : pre[u].fut[i].st = "running" }
        cap == IF Len(pre[u].keys) < 4 THEN Len(pre[u].keys) ELSE 4
    IN  Cardinality(running) <= cap

\* four calls of a run are in flight and a fifth request waits in the queue
C4_Witness ==
  \E u \in UploadIds :
    /\ Cardinality({ i \in DOMAIN pre[u].fut : pre[u].fut[i].st = "running" }) = 4
    /\ \E i \in DOMAIN pre[u].fut : pre[u].fut[i].st = "queued"

\* C5 (failure isolation in precompute), as claimed: when a run has ended
\* after one of its generation calls raised, every key whose call returned
\* has had its entry written by that run.
C5_FailureIsolation ==
  \A u \in UploadIds :
    ( pre[u].pc = "failed" )
      => \A i \in DOMAIN pre[u].fut :
           ( pre[u].fut[i].st \in { "ok", "taken" } ) => pre[u].nwrit[i] >= 1

\* a run has ended on a raised call, a sibling call returned its result,
\* and neither that run nor anything else wrote the sibling's entry
C5_Witness ==
  \E u \in UploadIds :
    /\ pre[u].pc = "failed"
    /\ \E i \in DOMAIN pre[u].fut :
         /\ pre[u].fut[i].st = "ok"
         /\ pre[u].nwrit[i] = 0
         /\ cache_file(pre[u].slug, pre[u].keys[i]) \notin DOMAIN cache

\* the slugs of the records of the persisted index
IndexSlugs == { index[i].slug : i \in DOMAIN index }
\* the k-th candidate of _unique_slug: base, base-2, base-3, ...
Candidate(base, k) == IF k = 1 THEN base ELSE base \o << "-" >> \o IntToStr(k)
\* handler u reads the index and settles its slug in this step
Assigns(u) == upl[u].pc = "idle" /\ upl'[u].pc = "loaded"
\* no other upload is being handled
HandledAlone(u) ==
  \A v \in UploadIds \ { u } : upl[v].pc \in { "idle", "done", "rejected" }
\* the earlier accepted uploads with the base slug of u
EarlierSameBase(u) ==
  { v \in UploadIds \ { u } :
      /\ upl[v].pc = "done"
      /\ base_slug(upl[v].input.form) = base_slug(upl'[u].input.form) }
\* the record of upload v is in the index
RecordIn(v) ==
  \E i \in DOMAIN index :
    index[i].uploaded_at = v /\ index[i].slug = upl[v].slug

\* C6 (slug collision suffixing), as claimed: an upload handled alone, after
\* n uploads of the same base slug whose records are all still in the
\* index, is assigned the base slug if n = 0 and base-(n+1) otherwise.
C6_SuffixBySameBaseCount ==
  [][ \A u \in UploadIds :
        ( Assigns(u) /\ HandledAlone(u) /\ \A v \in EarlierSameBase(u) : RecordIn(v) )
          => upl'[u].slug =
               Candidate(base_slug(upl'[u].input.form),
                         Cardinality(EarlierSameBase(u)) + 1)
    ]_vars

\* C6, amended: every accepted upload is assigned the first of base,
\* base-2, base-3, ... that is no slug of the index it read: a function of
\* the base slug and the set of indexed slugs, never a slug of that index;
\* uploads of one base handled one after another get base, base-2, base-3
\* only where no record from another base holds one of these slugs.
C6_FirstFreeSuffix ==
  [][ \A u \in UploadIds :
        Assigns(u) =>
          LET base == base_slug(upl'[u].input.form)
              free == { k \in 1..(Cardinality(IndexSlugs) + 1) :
                          Candidate(base, k) \notin IndexSlugs }
          IN  /\ upl'[u].slug \notin IndexSlugs
              /\ \E k \in free :
                   /\ upl'[u].slug = Candidate(base, k)
                   /\ \A j \in free : k <= j
    ]_vars

\* the second upload of base a-0 was assigned a-0-3, a-0-2 being the slug
\* of a record from another base
C6_Witness ==
  \E u \in UploadIds :
    /\ upl[u].slug = << "a", "-", "0", "-", "3" >>
    /\ upl[u].input.form = FormA0
    /\ Cardinality({ v \in UploadIds :
                       upl[v].pc \notin { "idle", "rejected" } /\
                       upl[v].input.form = FormA0 }) = 2
    /\ \E i \in DOMAIN index :
         index[i].slug = << "a", "-", "0", "-", "2" >> /\ index[i].instructor = << "0" >>

\* C7 (index slug uniqueness): in every reachable state, under any
\* interleaving of uploads, prunes and removals of stored PDFs, no two
\* records of the persisted index have the same slug.
C7_IndexSlugsUnique ==
  \A i, j \in DOMAIN index : index[i].slug = index[j].slug => i = j

\* the index holds three records, saved by uploads that overlapped a prune
C7_Witness ==
  /\ Len(index) = 3
  /\ \E p \in PruneIds : prn[p].pc = "loop"

\* the entries of the slug of clear request c: one per catalog key
EntriesOfSlug(slug) == { cache_file(slug, k) : k \in DOMAIN PROMPT_SPECS }
\* clear request c lists the directory in this step
Lists(c) == clr[c].pc = "idle" /\ clr'[c].pc # "idle"

\* C8 (cache-clear scope), as claimed: for every slug value, what
\* POST /cache/clear/{slug} sets out to remove is the cache entries of that
\* slug that exist; each of its steps removes one of those, which is gone
\* afterwards, and leaves every other entry there with its content; it
\* completes when none is left to remove; and the index and the stored
\* PDFs are as before.
C8_ClearScope ==
  [][ \A c \in ClearIds :
        /\ Lists(c)
             => /\ clr'[c].left = ( DOMAIN cache ) \cap EntriesOfSlug(clr'[c].slug)
                /\ cache' = cache
                /\ ( clr'[c].pc = "done" ) = ( clr'[c].left = { } )
        /\ ( clr[c].pc = "unlink" /\ clr'[c] # clr[c] )
             => /\ \E n \in clr[c].left :
                     /\ clr'[c].left = clr[c].left \ { n }
                     /\ n \notin DOMAIN cache'
                /\ \A n \in ( DOMAIN cache ) \ EntriesOfSlug(clr[c].slug) :
                     n \in DOMAIN cache' /\ cache'[n] = cache[n]
                /\ ( clr'[c].pc = "done" ) = ( clr'[c].left = { } )
        /\ ( clr'[c] # clr[c] ) => index' = index /\ uploads' = uploads
    ]_vars

\* POST /cache/clear/* has been handled and the entries that the finished
\* precompute of an indexed document wrote are gone
C8_Witness ==
  /\ \E c \in ClearIds : clr[c].slug = << "*" >> /\ clr[c].status = 303
  /\ \E u \in UploadIds :
       /\ pre[u].pc = "done"
       /\ \E i \in DOMAIN index : index[i].slug = pre[u].slug
       /\ \A i \in DOMAIN pre[u].keys :
            cache_file(pre[u].slug, pre[u].keys[i]) \notin DOMAIN cache

\* the record's PDF is stored
Stored(rec) == rec.filename \in DOMAIN uploads

\* C9 (prune exactness): each turn of the loop of _prune_missing_files keeps
\* its record, unmodified and after those kept before, exactly if the
\* record's PDF is stored; and when a run whose findings are what is stored
\* finishes on the index it loaded, the index is exactly the prior records
\* whose PDF is stored, in their prior order, and it is rewritten if and
\* only if some record's PDF is missing.
C9_PruneExact ==
  [][ \A p \in PruneIds :
        /\ ( prn[p].pc = "loop" /\ prn'[p].pos = prn[p].pos + 1 )
             => LET rec == prn[p].idx[prn[p].pos]
                IN  /\ prn'[p].kept = IF Stored(rec) THEN Append(prn[p].kept, rec)
                                      ELSE prn[p].kept
                    /\ prn'[p].changed = ( prn[p].changed \/ ~ Stored(rec) )
                    /\ index' = index /\ idxSaves' = idxSaves
        /\ ( /\ prn[p].pc = "loop" /\ prn'[p].pc = "done" /\ prn[p].idx = index
             /\ prn[p].kept = SelectSeq(index, Stored) )
             => /\ index' = SelectSeq(index, Stored)
                /\ ( \A i \in DOMAIN index : Stored(index[i]) )
                     => ( idxSaves' = idxSaves /\ index' = index )
                /\ ( \E i \in DOMAIN index : ~ Stored(index[i]) )
                     => idxSaves' = idxSaves + 1
    ]_vars

\* a prune has removed the record of an accepted upload whose PDF is gone
\* and kept another record
C9_Witness ==
  /\ \E p \in PruneIds : prn[p].pc = "done"
  /\ index # << >>
  /\ \A i \in DOMAIN index : index[i].filename \in DOMAIN uploads
  /\ \E u \in UploadIds :
       /\ upl[u].pc = "done"
       /\ PdfFilename(upl[u].slug) \notin DOMAIN uploads
       /\ \A i \in DOMAIN index : index[i].uploaded_at # u
  /\ idxSaves = Cardinality({ u \in UploadIds : upl[u].pc = "done" }) + 1

\* the file name does not end in ".pdf", whatever the case of its letters
NotPdfName(name) ==
  \/ Len(name) < 4
  \/ Lower(SubSeq(name, Len(name) - 3, Len(name))) # << ".", "p", "d", "f" >>

\* C10 (non-PDF rejection): an upload whose file is not a PDF by its name is
\* answered 400 in a step that leaves the index, the stored uploads, the
\* cache and the precompute tasks as they were; nothing is done for it
\* later, and no precompute is ever scheduled for it.
C10_NonPdfRejected ==
  [][ \A u \in UploadIds :
        /\ ( upl[u].pc = "idle" /\ upl'[u].pc # "idle" /\ NotPdfName(upl'[u].input.name) )
             => /\ upl'[u].pc = "rejected" /\ upl'[u].status = 400
                /\ UNCHANGED << index, idxSaves, uploads, cache, pre >>
        /\ ( upl[u].pc = "rejected" )
             => ( upl'[u] = upl[u] /\ pre[u] = NoPre /\ pre'[u] = NoPre )
    ]_vars

\* an upload was rejected while the index, the uploads folder and the cache
\* held another document's data
C10_Witness ==
  \E u \in UploadIds :
    /\ upl[u].pc = "rejected" /\ upl[u].status = 400
    /\ index # << >> /\ uploads # << >> /\ cache # << >>

\* C11 (empty-text short circuit): a run_llm call whose text is empty or
\* all whitespace makes no call to the model at any point and, for a key of
\* the catalog, returns the fixed message; a call with other text and a key
\* of the catalog has made exactly one model call when the model is asked
\* and when run_llm returns or the model's error leaves it.
C11_EmptyTextShortCircuit ==
  ( call.fn = "run_llm" ) =>
    LET blank == \A i \in DOMAIN call.text : call.text[i] \in { " ", "\t", "\n", "\r" }
        known == call.key \in DOMAIN PROMPT_SPECS
    IN  /\ blank => call.net = 0
        /\ ( blank /\ known /\ call.pc # "called" )
             => ( call.pc = "returned" /\ call.out = MsgNoTextLlm )
        /\ ( ~ blank /\ known /\ call.pc # "called" )
             => ( call.net = 1 /\ call.pc \in { "model", "returned", "raised" } )

\* run_llm has returned the fixed message for a text of whitespace
C11_Witness ==
  /\ call.fn = "run_llm" /\ call.pc = "returned"
  /\ call.text = << "\n", " ", "\t" >>
  /\ call.out = MsgNoTextLlm /\ call.net = 0

\* the 1-based positions of character c in text t
Positions(t, c) == { i \in DOMAIN t : t[i] = c }
\* the least and the greatest member of a non-empty set of numbers
Least(S) == CHOOSE i \in S : \A j \in S : i <= j
Greatest(S) == CHOOSE i \in S : \A j \in S : j <= i
\* where a code fence starts in t
FenceAt(t) == { i \in 1..(Len(t) - 2) : SubSeq(t, i, i + 2) = Fence }
\* the text recovery looks at: the stripped contents of the first fenced
\* block if the trimmed response begins with a fence that is closed, else
\* the trimmed response
Searched(t) ==
  IF 1 \in FenceAt(t) /\ \E i \in FenceAt(t) : i >= 4
  THEN Strip(SubSeq(t, 4, Least({ i \in FenceAt(t) : i >= 4 }) - 1))
  ELSE t
\* what the claim says structured mode returns for a model response
Recovered(reply) ==
  LET t == Strip(reply)
      b == Searched(t)
      open == Positions(b, "{")
      shut == Positions(b, "}")
  IN  IF open = { } \/ shut = { } THEN t
      ELSE IF Greatest(shut) <= Least(open) THEN t
      ELSE LET parsed == json_loads(SubSeq(b, Least(open), Greatest(shut)))
           IN  IF parsed.ok THEN json_dumps(parsed.val) ELSE t

\* C12 (structured-output recovery): whenever run_llm returns for a key in
\* json mode and a text that is not blank, its result is: the canonical
\* pretty-printed JSON of the region from the first "{" to the last "}" of
\* the trimmed response (or of its first fenced block) if there is such a
\* region and it parses; the trimmed response unchanged in every other
\* case.  Recovery itself never raises: run_llm is left by an exception
\* only from the lookup of the key or from the model.
C12_StructuredRecovery ==
  ( call.fn = "run_llm" /\ call.pc = "returned" /\ call.net = 1
    /\ call.key \in DOMAIN PROMPT_SPECS /\ PROMPT_SPECS[call.key] = "json" )
    => call.out = Recovered(call.reply)

\* a fenced response was recovered into pretty-printed JSON
C12_Witness ==
  /\ call.fn = "run_llm" /\ call.pc = "returned" /\ call.key = KeyWorkload
  /\ call.reply = Fence \o << "j", "s", "o", "n", "\n" >> \o ObjA1 \o << "\n" >> \o Fence
  /\ call.out = << "{", "\n", " ", " ", "\"", "a", "\"", ":", " ", "1", "\n", "}" >>

\* the page texts that are not empty, in page order, joined by "\n\n"
RECURSIVE JoinedText(_)
JoinedText(pages) ==
  IF pages = << >> THEN << >>
  ELSE LET rest == JoinedText(Tail(pages))
       IN  IF Head(pages) = << >> THEN rest
           ELSE IF rest = << >> THEN Head(pages)
                ELSE Head(pages) \o << "\n", "\n" >> \o rest
\* the length of the texts of the first n pages
RECURSIVE PageChars(_, _)
PageChars(pages, n) == IF n = 0 THEN 0 ELSE PageChars(pages, n - 1) + Len(pages[n])

\* C13 (bounded best-effort extraction): for a missing or unreadable file
\* _extract_pdf_text returns "" (it never raises); for a PDF it returns the
\* first max_chars characters (all, if fewer) of the non-empty page texts
\* joined in page order by the paragraph separator, so at most max_chars
\* characters; a page after the first is read only if the texts of the
\* pages before it had fewer than max_chars characters; and the result is that
\* of extract_pdf_text, the form in which the handlers use the function.
C13_BoundedExtraction ==
  ( call.fn = "extract" ) =>
    LET present == call.name \in DOMAIN call.dir /\ call.dir[call.name].readable
        pages == call.dir[call.name].pages
        whole == JoinedText(pages)
        want == IF ~ present THEN << >>
                ELSE IF Len(whole) <= call.max_chars THEN whole
                ELSE SubSeq(whole, 1, call.max_chars)
    IN  /\ call.pc \in { "called", "pages", "join", "returned" }
        /\ ( present /\ call.read >= 2 )
             => PageChars(pages, call.read - 1) < call.max_chars
        /\ ~ present => call.read = 0
        /\ ( call.pc = "returned" )
             => /\ call.out = want
                /\ Len(call.out) <= call.max_chars
                /\ call.out = extract_pdf_text(call.dir, call.name, call.max_chars)

\* the text was cut inside the second page's text and the third page,
\* which has text, was not read
C13_Witness ==
  /\ call.fn = "extract" /\ call.pc = "returned"
  /\ call.dir = ( NamePdf :> [ readable |-> TRUE,
                               pages |-> << << "a" >>, << "b", "c" >>, << "a" >> >> ] )
  /\ call.max_chars = 3 /\ call.read = 2
  /\ call.out = << "a", "\n", "\n" >>

\* a request is taken up by handler r: its path parameters are in req'[r]
ReqArrives(r) == req[r].pc = "idle" /\ req'[r].pc # "idle"
ClientError == 400..499

\* C14 (invalid requests get explicit client errors): a request to
\* /syllabus/{slug}, /pdf/{slug}, /insight/{slug}/{key}, /compare/{a}/{b} or
\* /cache/clear/{slug} that names a slug with no record in the index, or a
\* key outside the catalog, is answered with a 4xx status, calls neither
\* run_llm nor the model, and leaves index and cache as they were.  The
\* index is the one the handler reads; clear_cache reads none, and its slug
\* is looked for in the index of the moment it is taken up.
C14_InvalidRequestsRejected ==
  [][ /\ \A v \in ViewIds :
           ( Arrives(v) /\ ~ Servable(v) )
             => /\ view'[v].pc = "done" /\ view'[v].status \in ClientError
                /\ view'[v].llm = 0 /\ view'[v].net = 0
                /\ cache' = cache /\ index' = index
      /\ \A c \in ClearIds :
           ( Lists(c) /\ clr'[c].slug \notin IndexSlugs )
             => /\ clr'[c].pc = "done" /\ clr'[c].status \in ClientError
                /\ cache' = cache /\ index' = index
      /\ \A r \in ReqIds :
           /\ ( /\ ReqArrives(r) /\ req'[r].route \in { "syllabus", "pdf" }
                /\ req'[r].a \notin IndexSlugs )
                => /\ req'[r].pc = "done" /\ req'[r].status \in ClientError
                   /\ cache' = cache /\ index' = index
           /\ ( /\ req[r].pc = "finda" /\ req'[r] # req[r]
                /\ ( ~ req[r].hasA \/ req[r].b \notin IndexSlugs ) )
                => /\ req'[r].pc = "done" /\ req'[r].status \in ClientError
                   /\ req'[r].llm = 0 /\ req'[r].net = 0
                   /\ cache' = cache /\ index' = index
    ]_vars

\* with a-0 in the index and no record "z": /cache/clear/z was answered
\* with the redirect and /compare/a-0/z with a server error
C14_Witness ==
  /\ SlugA0 \in IndexSlugs /\ << "z" >> \notin IndexSlugs
  /\ \E c \in ClearIds : clr[c].slug = << "z" >> /\ clr[c].status = 303
  /\ \E r \in ReqIds :
       /\ req[r].route = "compare" /\ req[r].a = SlugA0 /\ req[r].b = << "z" >>
       /\ req[r].hasA /\ req[r].status = 500

\* C15 (comparison flow): when /compare/{a}/{b} has found the records of both
\* slugs in the index, it reads the three cached entries of each in turn
\* (the placeholder for one that does not exist); after the sixth it makes
\* exactly one generation call, which reaches the model once, and answers
\* 200 with its output; no step of it changes cache or index.
C15_ComparisonFlow ==
  [][ \A r \in ReqIds :
        /\ ( req[r].pc = "finda" /\ req'[r] # req[r]
             /\ req[r].hasA /\ req[r].b \in IndexSlugs )
             => req'[r].pc = "load" /\ req'[r].read = << >>
        /\ ( req[r].pc = "load" /\ req'[r] # req[r]
             /\ CompareEntry(r, Len(req[r].read) + 1) \notin DOMAIN cache )
             => req'[r].read = Append(req[r].read, NotGenerated)
        /\ ( req[r].pc = "read" /\ req'[r] # req[r]
             /\ CompareEntry(r, Len(req[r].read) + 1) \in DOMAIN cache )
             => req'[r].read =
                  Append(req[r].read, cache[CompareEntry(r, Len(req[r].read) + 1)])
        /\ ( req[r].route = "compare" /\ req'[r] # req[r] /\ Len(req'[r].read) = 6 )
             => /\ req'[r].pc = "done"
                /\ req'[r].llm = 1 /\ req'[r].net = 1
                /\ req'[r].status = 200
        /\ ( req'[r] # req[r] ) => cache' = cache /\ index' = index
    ]_vars

\* /compare/a-0/a-0-2 with both records found, one cached entry read and the
\* placeholder for another: run_llm was called, the model was not, and the
\* answer is a server error
C15_Witness ==
  \E r \in ReqIds :
    /\ req[r].route = "compare" /\ req[r].a = SlugA0 /\ req[r].b = SlugA02
    /\ req[r].llm = 1 /\ req[r].net = 0 /\ req[r].status = 500
    /\ Len(req[r].read) = 6
    /\ req[r].read[2] # NotGenerated /\ req[r].read[5] = NotGenerated

\* C16 (cache entries are write-once between clears): no step changes the
\* content of a cache entry that exists before and after it; an entry gets
\* another content only by being removed by a cache-clear and written anew.
C16_WriteOnce ==
  [][ \A f \in ( DOMAIN cache ) \cap ( DOMAIN cache' ) : cache'[f] = cache[f] ]_vars

\* no cache-clear was ever requested; the precompute of the scanned document
\* a-0 has written its message to every key and is done, and the entry of
\* (a-0, workload) holds the other message, written by a view that had
\* missed
C16_Witness ==
  /\ \A c \in ClearIds : clr[c] = NoClear
  /\ \E u \in UploadIds :
       /\ pre[u].pc = "done" /\ pre[u].slug = SlugA0
       /\ \A i \in DOMAIN pre[u].keys : pre[u].nwrit[i] = 1
  /\ \E v \in ViewIds :
       /\ view[v].pc = "done" /\ view[v].source = "generated"
       /\ view[v].slug = SlugA0 /\ view[v].key = KeyWorkload
  /\ cache_file(SlugA0, KeyWorkload) \in DOMAIN cache
  /\ cache[cache_file(SlugA0, KeyWorkload)] = MsgNoTextLlm
  /\ cache[cache_file(SlugA0, KeyTldr)] = MsgNoTextPre

\* C17 (record durability): a record of the index whose PDF is stored before
\* and after a step is in the index after the step with the fields it had,
\* whatever uploads and prune runs are under way.
C17_RecordDurable ==
  [][ \A i \in DOMAIN index :
        ( index[i].filename \in DOMAIN uploads
          /\ index[i].filename \in DOMAIN uploads' )
          => \E j \in DOMAIN index' : index'[j] = index[i]
    ]_vars

\* no stored PDF was ever removed; two uploads with the slugs a-0 and a-0-2
\* have both saved their records and both PDFs are stored, and the index
\* holds the record of the second only
C17_Witness ==
  /\ env.delete = MaxDeletes
  /\ \E u, w \in UploadIds :
       /\ upl[u].pc = "done" /\ upl[u].slug = SlugA0
       /\ upl[w].pc = "done" /\ upl[w].slug = SlugA02
       /\ PdfFilename(SlugA0) \in DOMAIN uploads
       /\ PdfFilename(SlugA02) \in DOMAIN uploads
       /\ ~ RecordIn(u) /\ RecordIn(w)

\* run u leaves "scheduled" in this step and the stored PDF yields no text
StartsOnNoText(u) ==
  /\ pre[u].pc = "scheduled" /\ pre'[u].pc # "scheduled"
  /\ \A c \in Range(extract_pdf_text(uploads, pre[u].filename, DEFAULT_MAX_CHARS)) :
       IsSpace(c)
\* the step is the next write of the no-text branch of run u: the entry of
\* the key at the loop's position gets msg, nothing else of the cache
\* changes, no call is submitted, and the run is done after the last key
WritesFallback(u, msg) ==
  LET i == pre[u].pos
      f == cache_file(pre[u].slug, prompt_keys[i])
  IN  /\ i \in DOMAIN prompt_keys
      /\ DOMAIN cache' = ( DOMAIN cache ) \cup { f }
      /\ cache'[f] = msg
      /\ \A n \in ( DOMAIN cache ) \ { f } : cache'[n] = cache[n]
      /\ pre'[u].fut = << >>
      /\ pre'[u].nwrit = [ pre[u].nwrit EXCEPT ![i] = 1 ]
      /\ pre'[u].pos = i + 1
      /\ pre'[u].pc = IF i = Len(prompt_keys) THEN "done" ELSE "fallback"
\* the no-text branch of precompute, writing msg
NoTextBranch(msg) ==
  \A u \in UploadIds :
    /\ StartsOnNoText(u)
         => /\ pre'[u].pc = "fallback" /\ pre'[u].pos = 1
            /\ pre'[u].fut = << >>
            /\ \A i \in DOMAIN prompt_keys : pre'[u].nwrit[i] = 0
            /\ cache' = cache
    /\ ( pre[u].pc = "fallback" /\ pre'[u] # pre[u] ) => WritesFallback(u, msg)

\* C18 (precompute on empty extraction), as claimed: when the stored PDF
\* yields empty or whitespace-only text, precompute submits no generation
\* call, writes one message to the entry of each catalog key in turn, once
\* each, and stops; and that message is the one run_llm returns for empty
\* text, which the on-demand path would cache.
C18_FallbackSameAsOnDemand ==
  [][ NoTextBranch(MsgNoTextLlm) ]_vars

\* C18, as the code has it: the same, except that the message is
\* precompute's own ("... (scanned image?)."), which is not the text
\* run_llm returns for empty text ("... (or it's scanned).").
C18_FallbackOwnMessage ==
  /\ MsgNoTextPre # MsgNoTextLlm
  /\ [][ NoTextBranch(MsgNoTextPre) ]_vars

\* the run of a scanned document is done without a call submitted, and the
\* entries of the four keys hold precompute's message
C18_Witness ==
  \E u \in UploadIds :
    /\ pre[u].pc = "done" /\ pre[u].fut = << >> /\ pre[u].pos = Len(prompt_keys) + 1
    /\ \A i \in DOMAIN prompt_keys :
         /\ cache_file(pre[u].slug, prompt_keys[i]) \in DOMAIN cache
         /\ cache[cache_file(pre[u].slug, prompt_keys[i])] = MsgNoTextPre

\* the index the step leaves holds the record of upload u
RecordSaved(u) ==
  \E i \in DOMAIN index' :
    index'[i].uploaded_at = u /\ index'[i].slug = upl[u].slug
\* another upload that had loaded the index without the record of u has
\* saved since
SavedOver(u) ==
  \E w \in UploadIds \ { u } :
    /\ upl[w].pc = "done"
    /\ \A i \in DOMAIN upl[w].idx : upl[w].idx[i].uploaded_at # u

\* C19 (upload is fire-and-forget): an accepted upload stores the PDF with
\* the index and the precompute untouched, then in its last step saves the
\* index with its record, schedules the precompute and answers 303, at
\* which point no generation call of that run has been submitted; and a
\* precompute run is only ever created by that last step and starts only
\* after it, with the PDF stored, the response given and the record in the
\* index unless another upload's save has replaced the index since.
C19_FireAndForget ==
  [][ \A u \in UploadIds :
        /\ ( upl'[u].pc = "stored" /\ upl[u].pc # "stored" )
             => /\ upl[u].pc = "loaded"
                /\ PdfFilename(upl[u].slug) \in DOMAIN uploads'
                /\ index' = index /\ idxSaves' = idxSaves
                /\ pre'[u].pc = "none" /\ upl'[u].status = 0
        /\ ( upl'[u].pc = "done" /\ upl[u].pc # "done" )
             => /\ upl[u].pc = "stored"
                /\ PdfFilename(upl[u].slug) \in DOMAIN uploads
                /\ RecordSaved(u)
                /\ pre[u].pc = "none" /\ pre'[u].pc = "scheduled"
                /\ pre'[u].slug = upl[u].slug /\ pre'[u].fut = << >>
                /\ upl'[u].status = 303
                /\ cache' = cache
        /\ ( pre'[u].pc # "none" /\ pre[u].pc = "none" )
             => upl'[u].pc = "done" /\ upl[u].pc = "stored"
        /\ ( pre[u].pc = "scheduled" /\ pre'[u].pc # "scheduled" )
             => /\ upl[u].pc = "done" /\ upl[u].status = 303
                /\ pre[u].filename \in DOMAIN uploads
                /\ RecordIn(u) \/ SavedOver(u)
    ]_vars

\* the first upload has been answered with the redirect while its precompute
\* run, scheduled, has not started, and no cache entry exists
C19_Witness ==
  /\ upl[1].pc = "done" /\ upl[1].status = 303
  /\ pre[1].pc = "scheduled" /\ pre[1].fut = << >>
  /\ PdfFilename(upl[1].slug) \in DOMAIN uploads
  /\ RecordIn(1)
  /\ cache = << >>

\* the precompute generation calls in flight, over all runs
CallsInFlight ==
  { << u, i >> \in UploadIds \X KeyIds :
      i \in DOMAIN pre[u].fut /\ pre[u].fut[i].st = "running" }

\* C20 (process-wide precompute bound): in every reachable state the
\* precompute generation calls in flight, counted over all documents being
\* precomputed, number at most 4.
C20_ProcessWideBound ==
  Cardinality(CallsInFlight) <= 4

\* two documents are being precomputed and four calls of each run are in
\* flight, eight in all
C20_Witness ==
  /\ \A u \in { 1, 2 } : pre[u].pc = "pool" /\ InFlight(u) = 4
  /\ Cardinality(CallsInFlight) = 8

\* upload u writes its PDF in this step
Stores(u) == upl[u].pc = "loaded" /\ upl'[u].pc = "stored"
\* the accepted uploads other than u that have written a PDF under the
\* file name of u, the file being there
StoredUnderNameOf(u) ==
  { w \in UploadIds \ { u } :
      /\ upl[w].pc \in { "stored", "done" }
      /\ upl[w].slug = upl[u].slug
      /\ PdfFilename(upl[w].slug) \in DOMAIN uploads }

\* C21 (no accepted upload overwrites another's stored PDF): when an
\* accepted upload writes its PDF, no other accepted upload has written a
\* PDF under the same file name that is still stored, also when the two are
\* handled concurrently with the same base slug.
C21_NoOverwrite ==
  [][ \A u \in UploadIds : Stores(u) => StoredUnderNameOf(u) = { } ]_vars

\* no stored PDF was ever removed; uploads 1 and 2 were both accepted with
\* the slug a-0 and have both saved, and a-0.pdf holds the document of
\* upload 2, which is not the one upload 1 stored
C21_Witness ==
  /\ env.delete = MaxDeletes
  /\ upl[1].pc = "done" /\ upl[2].pc = "done"
  /\ upl[1].slug = SlugA0 /\ upl[2].slug = SlugA0
  /\ PdfFilename(SlugA0) \in DOMAIN uploads
  /\ uploads[PdfFilename(SlugA0)] = upl[2].input.doc
  /\ upl[1].input.doc # upl[2].input.doc

\* what the code can write to the entry of key for the PDF now stored under
\* name: one of the two no-text messages, or what run_llm returns
FromStored(name, key) ==
  IF IsBlank(extract_pdf_text(uploads, name, DEFAULT_MAX_CHARS))
  THEN { MsgNoTextPre, MsgNoTextLlm }
  ELSE { run_llm_result(key, reply) : reply \in env.replies }
\* request v is answered from the cache in this step
ServedFromCache(v) ==
  view[v].pc = "hit" /\ view'[v].pc = "done" /\ view'[v].source = "cache"

\* C22 (cached insights belong to the current document): when a view is
\* served with source "cache" and the PDF of its slug is stored, the text
\* served is one that is generated from that PDF, also after the slug's
\* record was pruned and the slug assigned to a later upload.
C22_CacheIsCurrent ==
  [][ \A v \in ViewIds :
        ( ServedFromCache(v) /\ PdfFilename(view[v].slug) \in DOMAIN uploads )
          => view'[v].text \in FromStored(PdfFilename(view[v].slug), view[v].key)
    ]_vars

\* the first upload, a scanned PDF, got a-0 and its view cached the no-text
\* message; its PDF was removed and a prune run dropped its record; the
\* second upload, loading the empty index, got a-0 again for a PDF with
\* text; the second view was served the no-text message from the cache
C22_Witness ==
  /\ env.delete = 0 /\ env.prune = 0 /\ idxSaves = 3
  /\ \A p \in PruneIds : prn[p].pc \in { "idle", "done" }
  /\ upl[1].pc = "done" /\ upl[1].slug = SlugA0 /\ upl[1].input.doc = DocScan
  /\ upl[2].pc = "done" /\ upl[2].slug = SlugA0 /\ upl[2].input.doc = DocText
  /\ upl[2].idx = << >>
  /\ Len(index) = 1 /\ index[1].uploaded_at = 2
  /\ PdfFilename(SlugA0) \in DOMAIN uploads
  /\ uploads[PdfFilename(SlugA0)] = DocText
  /\ view[1].pc = "done" /\ view[1].source = "generated"
  /\ view[1].text = MsgNoTextLlm
  /\ view[2].pc = "done" /\ view[2].source = "cache"
  /\ view[2].slug = SlugA0 /\ view[2].text = MsgNoTextLlm

====
